---- MODULE Spec2Model ----
(***************************************************************************)
(* Validation scheduler of the markdownlint language server (class Server  *)
(* of lib/server.mjs): document registry, per-document debounce timers,    *)
(* single-flight validation queue, version-stamped staleness guard, config *)
(* cache and the diagnostics the server publishes.                         *)
(*                                                                         *)
(* One action is one macrotask of the Node.js event loop: a protocol       *)
(* handler, a timer callback, or the continuation of an awaited call       *)
(* together with the promise reactions (catch/finally) it triggers.        *)
(***************************************************************************)
EXTENDS Integers, Sequences, FiniteSets, Bags, TLC

(***************************************************************************)
(* Bounds of the model.                                                    *)
(***************************************************************************)
MaxVersion == 2
MaxOpens == 2
MaxEpoch == 2
MaxRunsPerUri == 2
MaxConfigRequests == 1
ConfigMaxVersion == 2
ConfigMaxOpens == 1
MultiMaxVersion == 2
MultiMaxOpens == 1

(***************************************************************************)
(* Program constants.                                                      *)
(***************************************************************************)
CONFIG_CACHE_MAX_SIZE == 100

(***************************************************************************)
(* The world of the model: two documents below the workspace folder "/w", *)
(* which the client can remove from and add back to its folder set.        *)
(***************************************************************************)
UriA == "file:///w/docs/a.md"
UriB == "file:///w/b.md"
URIs == {UriA, UriB}
\* a document the editor has not saved to a file yet
NonFileUri == "untitled:Untitled-1"
DocumentUris == URIs \cup {NonFileUri}
FolderW == "/w"
FolderDocs == "/w/docs"
Folders == {FolderW, FolderDocs}
Cwd == "/cwd"
NoPath == ""
LanguageIds == {"markdown", "plaintext"}

\* path.relative(folderPath, docPath) stays inside the folder
FolderContains(folder, uri) ==
    \/ folder = FolderW /\ uri \in URIs
    \/ folder = FolderDocs /\ uri = UriA

\* issues the analysis engine can report (lineNumber, ruleNames[0], fixInfo?)
IssueFixable == [lineNumber |-> 1, ruleName |-> "MD018", fixInfo |-> TRUE]
IssuePlain == [lineNumber |-> 2, ruleName |-> "MD012", fixInfo |-> FALSE]
LintResults == {<<>>, <<IssuePlain, IssueFixable>>}

NoDoc == [uri |-> "", version |-> 0, languageId |-> "", inc |-> 0]
NoVersion == 0
NoFixes == [present |-> FALSE, pairs |-> <<>>]
NoPub == [version |-> -1, diagnostics |-> <<>>, options |-> 0, inc |-> 0]
NoUri == ""
NoOptions == -1
\* the {} that stands in when loadConfig resolves to null
EmptyOptions == -2
NoCall == [op |-> "none"]
NoResult == <<>>

VARIABLES
    documents,            \* #documents: uri -> TextDocument (NoDoc when absent)
    docOrder,             \* insertion order of the keys of #documents
    validationTimeouts,   \* #validationTimeouts: uri -> document object captured by the
                          \* pending timer (NoDoc when absent)
    documentFixes,        \* #documentFixes: uri -> diagnostic/fix pairs (NoFixes when absent)
    latestVersionByUri,   \* #latestVersionByUri: uri -> version (NoVersion when absent)
    configCache,          \* #configCache: insertion-ordered sequence of [key, options, used]
    configChangeTimeout,  \* #configChangeTimeout pending
    validationInFlight,   \* #validationInFlight
    queuedValidations,    \* #queuedValidations: uri -> document (NoDoc when absent)
    workspaceFolders,     \* #workspaceFolders
    rootPath,             \* #rootPath
    runs,                 \* bag of suspended validateDocument executions
    configRequests,       \* onDidChangeConfiguration handlers awaiting getConfiguration
    diskEpoch,            \* generation of the configuration files on disk
    notifiedEpoch,        \* diskEpoch at the last handled watched-files event
    opens,                \* number of didOpen events seen per uri
    sent,                 \* uri of the publishDiagnostics sent by the last step (NoUri if none)
    lastPublished,        \* the last publishDiagnostics sent per uri, with the options
                          \* and the open session (inc) of the document it came from
    enqueued,             \* uri -> the registry's document was handed to #enqueueValidation
    burstSkipped,         \* versions replaced by an edit while their debounce timer was
                          \* pending and before anything had enqueued them
    publishedLatest,      \* uri -> diagnostics of a run on the registry's document,
                          \* stamped with its version, were published since the
                          \* document got that version
    call,                 \* the request or function call the last step answered
                          \* (NoCall if it answered none)
    result,               \* what that call returned
    positionEncoding,     \* #positionEncoding
    initializationOptions,\* #initializationOptions
    settings              \* #settings

vars == <<documents, docOrder, validationTimeouts, documentFixes, latestVersionByUri,
          configCache, configChangeTimeout, validationInFlight, queuedValidations,
          workspaceFolders, rootPath, runs, configRequests, diskEpoch, notifiedEpoch,
          opens, sent, lastPublished, enqueued, burstSkipped, publishedLatest,
          call, result, positionEncoding, initializationOptions, settings>>

\* the state of the server, without the call it answered last
serverVars ==
    <<documents, docOrder, validationTimeouts, documentFixes, latestVersionByUri,
      configCache, configChangeTimeout, validationInFlight, queuedValidations,
      workspaceFolders, rootPath, runs, configRequests, diskEpoch, notifiedEpoch,
      opens, sent, lastPublished, enqueued, burstSkipped, publishedLatest,
      positionEncoding, initializationOptions, settings>>

(***************************************************************************)
(* Helpers on the data structures.                                         *)
(***************************************************************************)
RemoveFromSeq(s, x) == SelectSeq(s, LAMBDA y : y # x)

\* Options objects are functions from option names to values; {} is the
\* empty one, and Null stands for null and undefined.
EmptyObject == <<>>
Null == [null |-> "null"]

Has(object, key) == key \in DOMAIN object

\* { ...first, ...second }
Spread(first, second) == second @@ first

\* a merge that takes the config of the second object whole
mergeOptions_shallow(first, second) == Spread(first, second)

mergeOptions(first, second) ==
    LET merged == Spread(first, second)
        firstConfig == IF Has(first, "config") THEN first.config ELSE EmptyObject
        secondConfig == IF Has(second, "config") THEN second.config ELSE EmptyObject
    IN IF Has(first, "config") \/ Has(second, "config")
       THEN [config |-> Spread(firstConfig, secondConfig)] @@ merged
       ELSE merged

\* const { validationDelay, ...options } = resolvedSettings
withoutValidationDelay_keeps(resolvedSettings) == resolvedSettings

withoutValidationDelay(resolvedSettings) ==
    [key \in DOMAIN resolvedSettings \ {"validationDelay"} |-> resolvedSettings[key]]

\* #resolveSettings
resolveSettings(clientSettings) ==
    LET resolvedSettings == IF clientSettings # Null THEN clientSettings ELSE EmptyObject
    IN mergeOptions([config |-> [default |-> "true"]],
                    withoutValidationDelay(resolvedSettings))

\* what workspace.getConfiguration("markdownlint") can resolve to: nothing, or
\* a section that sets the options the client also sets when it initializes
ClientSettings ==
    {Null,
     [frontMatter |-> "workspace", validationDelay |-> "10",
      config |-> [MD013 |-> "120"]]}

RECURSIVE firstContaining(_, _)
firstContaining(folders, uri) ==
    IF folders = <<>> THEN NoPath
    ELSE IF FolderContains(Head(folders), uri) THEN Head(folders)
    ELSE firstContaining(Tail(folders), uri)

\* uri.startsWith("file:")
startsWithFile_always(fileUri) == TRUE

startsWithFile(fileUri) == fileUri # NonFileUri

getWorkspaceRootFor(folders, root, documentUri) ==
    LET folderPath == firstContaining(folders, documentUri)
        fallback == IF root # NoPath THEN root ELSE Cwd
    IN IF ~startsWithFile(documentUri) THEN fallback
       ELSE IF folderPath # NoPath THEN folderPath
       ELSE fallback

chooseRootPath(root, folders) ==
    IF root # NoPath THEN root
    ELSE IF folders # <<>> THEN Head(folders) ELSE NoPath

isPathInWorkspaceFolders(targetPath, folders) ==
    /\ targetPath # NoPath
    /\ \E i \in 1..Len(folders) : folders[i] = targetPath

\* Map.get on the config cache: index of the entry, 0 when absent
CacheIndex(cache, key) ==
    LET hits == {i \in 1..Len(cache) : cache[i].key = key}
    IN IF hits = {} THEN 0 ELSE CHOOSE i \in hits : TRUE

\* Every entry also records, in "used", the rank of its last use (its insertion
\* or its last cache hit) among the entries of the cache: 1 for the entry that
\* was used longest ago.  The program keeps no such field and never reads it.
WithoutRank(cache, rank) ==
    [i \in 1..Len(cache) |-> [cache[i] EXCEPT !.used = IF @ > rank THEN @ - 1 ELSE @]]

\* Map.delete
CacheDelete(cache, key) ==
    LET i == CacheIndex(cache, key)
    IN IF i = 0 THEN cache
       ELSE WithoutRank(SelectSeq(cache, LAMBDA e : e.key # key), cache[i].used)

\* Map.set: an existing key keeps its position, a new key goes last
CacheSet(cache, key, options) ==
    LET i == CacheIndex(cache, key)
    IN IF i = 0
       THEN Append(cache, [key |-> key, options |-> options, used |-> Len(cache) + 1])
       ELSE [WithoutRank(cache, cache[i].used) EXCEPT
                ![i] = [key |-> key, options |-> options, used |-> Len(cache)]]

\* an insertion that never evicts
CacheInsert_neverEvicts(cache, key, options) == CacheSet(cache, key, options)

\* cache miss: evict the first key when full, then insert
CacheInsert(cache, key, options) ==
    LET evicted == IF Len(cache) >= CONFIG_CACHE_MAX_SIZE
                   THEN CacheDelete(cache, cache[1].key)
                   ELSE cache
    IN CacheSet(evicted, key, options)

\* cache hit: delete and re-add to move the entry to the end
CacheRefresh(cache, key) ==
    LET options == cache[CacheIndex(cache, key)].options
    IN CacheSet(CacheDelete(cache, key), key, options)

RECURSIVE issuesToDiagnostics(_)
issuesToDiagnostics(issues) ==
    IF issues = <<>> THEN <<>>
    ELSE <<[line |-> Head(issues).lineNumber - 1, code |-> Head(issues).ruleName]>>
         \o issuesToDiagnostics(Tail(issues))

RECURSIVE issuesToFixPairs(_)
issuesToFixPairs(issues) ==
    IF issues = <<>> THEN <<>>
    ELSE (IF Head(issues).fixInfo
          THEN <<[diagnostic |-> [line |-> Head(issues).lineNumber - 1,
                                  code |-> Head(issues).ruleName],
                  fixInfo |-> [lineNumber |-> Head(issues).lineNumber]]>>
          ELSE <<>>)
         \o issuesToFixPairs(Tail(issues))

\* an update that returns a new object and leaves the queued one as it was
updateQueued_copies(queued, document, updatedDocument) == queued

\* TextDocument.update changes the document object in place and returns it: the
\* registry, the queue and the suspended executions that hold the object all
\* see its new version (an execution keeps the currentVersion it read at its
\* start). The objects of earlier open sessions (another inc) are not touched.
updateQueued(queued, document, updatedDocument) ==
    [queued EXCEPT ![document.uri] = IF @ = document THEN updatedDocument ELSE @]

updateRuns(bag, document, updatedDocument) ==
    LET updated(run) == IF run.document = document
                        THEN [run EXCEPT !.document = updatedDocument]
                        ELSE run
        before(new) == CHOOSE run \in BagToSet(bag) : updated(run) = new
    IN [new \in {updated(run) : run \in BagToSet(bag)} |-> bag[before(new)]]

RunsOfUri(bag, uri) ==
    LET own == {r \in BagToSet(bag) : r.uri = uri}
    IN BagCardinality([r \in own |-> bag[r]])

(***************************************************************************)
(* The mutable scheduler state as one record, so that the synchronous      *)
(* helpers (validateDocument up to its first await, #enqueueValidation,    *)
(* the finally reaction) compose inside one action.                        *)
(***************************************************************************)
Cur ==
    [validationTimeouts |-> validationTimeouts,
     latestVersionByUri |-> latestVersionByUri,
     configCache |-> configCache,
     validationInFlight |-> validationInFlight,
     queuedValidations |-> queuedValidations,
     workspaceFolders |-> workspaceFolders,
     rootPath |-> rootPath,
     runs |-> runs,
     enqueued |-> enqueued,
     settings |-> settings,
     overflow |-> FALSE]

Commit(S) ==
    /\ ~S.overflow
    /\ validationTimeouts' = S.validationTimeouts
    /\ latestVersionByUri' = S.latestVersionByUri
    /\ configCache' = S.configCache
    /\ validationInFlight' = S.validationInFlight
    /\ queuedValidations' = S.queuedValidations
    /\ workspaceFolders' = S.workspaceFolders
    /\ rootPath' = S.rootPath
    /\ runs' = S.runs
    /\ enqueued' = S.enqueued

\* a lookup that finds nothing
configCacheGet_neverHits(cache, key) == NoOptions

\* #configCache.get(cacheKey): the options of the entry, NoOptions (undefined)
\* when there is none
configCacheGet(cache, key) ==
    IF CacheIndex(cache, key) = 0 THEN NoOptions
    ELSE cache[CacheIndex(cache, key)].options

\* validateDocument from its call to its first await (markdown documents)
validateDocument(S, document) ==
    LET uri == document.uri
        currentVersion == document.version
        workspaceRoot == getWorkspaceRootFor(S.workspaceFolders, S.rootPath, uri)
        cacheKey == <<workspaceRoot, uri>>
        documentOptions == configCacheGet(S.configCache, cacheKey)
        hit == documentOptions # NoOptions
        run == [uri |-> uri, document |-> document, currentVersion |-> currentVersion,
                cacheKey |-> cacheKey,
                pc |-> IF hit THEN "lint" ELSE "loadConfig",
                cached |-> hit,
                options |-> IF hit THEN documentOptions ELSE diskEpoch,
                settings |-> IF hit THEN S.settings ELSE Null]
    IN [S EXCEPT
          !.validationTimeouts[uri] = NoDoc,
          !.latestVersionByUri[uri] = currentVersion,
          !.configCache = IF hit THEN CacheRefresh(@, cacheKey) ELSE @,
          !.runs = @ (+) SetToBag({run}),
          !.overflow = @ \/ RunsOfUri(S.runs, uri) >= MaxRunsPerUri]

\* a .finally that forgets the queued snapshot
finally_dropsQueued(S, uri) ==
    [S EXCEPT !.validationInFlight = @ \ {uri}, !.queuedValidations[uri] = NoDoc]

RECURSIVE enqueueValidation(_, _), finally(_, _)
\* a .finally that starts the queued snapshot and leaves it in the queue
finally_leavesQueued(S, uri) ==
    LET S1 == [S EXCEPT !.validationInFlight = @ \ {uri}]
        queued == S1.queuedValidations[uri]
    IN IF queued # NoDoc THEN enqueueValidation(S1, queued) ELSE S1

\* an enqueue with one in-flight marker for all documents
enqueueValidation_oneAtATime(S, document) ==
    LET uri == document.uri
        E == [S EXCEPT !.enqueued[uri] = @ \/ document = documents[uri]]
    IN IF E.validationInFlight # {}
       THEN [E EXCEPT !.queuedValidations[uri] = document]
       ELSE LET S1 == [E EXCEPT !.validationInFlight = @ \cup {uri}]
            IN IF document.languageId # "markdown"
               THEN finally(S1, uri)
               ELSE validateDocument(S1, document)

\* the .finally reaction of #enqueueValidation
finally(S, uri) ==
    LET S1 == [S EXCEPT !.validationInFlight = @ \ {uri}]
        queued == S1.queuedValidations[uri]
    IN IF queued # NoDoc
       THEN enqueueValidation([S1 EXCEPT !.queuedValidations[uri] = NoDoc], queued)
       ELSE S1

enqueueValidation(S, document) ==
    LET uri == document.uri
        E == [S EXCEPT !.enqueued[uri] = @ \/ document = documents[uri]]
    IN IF uri \in E.validationInFlight
       THEN [E EXCEPT !.queuedValidations[uri] = document]
       ELSE LET S1 == [E EXCEPT !.validationInFlight = @ \cup {uri}]
            IN IF document.languageId # "markdown"
               THEN finally(S1, uri)   \* validateDocument returned at once
               ELSE validateDocument(S1, document)

\* for (const document of this.#documents.values()) this.#enqueueValidation(document)
RECURSIVE enqueueAll(_, _, _)
enqueueAll(S, order, docs) ==
    IF order = <<>> THEN S
    ELSE enqueueAll(enqueueValidation(S, docs[Head(order)]), Tail(order), docs)

(***************************************************************************)
(* Initial states.  Constructed is the server as its constructor leaves    *)
(* it, before the client's initialize request; Init is the server after    *)
(* initialize/initialized, started in workspace folder "/w" by a client    *)
(* that sent no initializationOptions and no position encodings, with no   *)
(* document open.                                                          *)
(***************************************************************************)
\* the fields of a server that has not handled a document yet
NoActivity ==
    /\ documents = [u \in DocumentUris |-> NoDoc]
    /\ docOrder = <<>>
    /\ validationTimeouts = [u \in DocumentUris |-> NoDoc]
    /\ documentFixes = [u \in DocumentUris |-> NoFixes]
    /\ latestVersionByUri = [u \in DocumentUris |-> NoVersion]
    /\ configCache = <<>>
    /\ configChangeTimeout = FALSE
    /\ validationInFlight = {}
    /\ queuedValidations = [u \in DocumentUris |-> NoDoc]
    /\ runs = EmptyBag
    /\ configRequests = 0
    /\ diskEpoch = 1
    /\ notifiedEpoch = 1
    /\ opens = [u \in DocumentUris |-> 0]
    /\ sent = NoUri
    /\ lastPublished = [u \in DocumentUris |-> NoPub]
    /\ enqueued = [u \in DocumentUris |-> FALSE]
    /\ burstSkipped = [u \in DocumentUris |-> {}]
    /\ publishedLatest = [u \in DocumentUris |-> FALSE]
    /\ call = NoCall
    /\ result = NoResult
    /\ positionEncoding = "utf-16"
    /\ initializationOptions = EmptyObject
    /\ settings = resolveSettings(EmptyObject)

Init ==
    /\ workspaceFolders = <<FolderW>>
    /\ rootPath = chooseRootPath(NoPath, <<FolderW>>)
    /\ NoActivity

Constructed ==
    /\ workspaceFolders = <<>>
    /\ rootPath = NoPath
    /\ NoActivity

\* throttledValidateDocument: cancel the pending timer of the uri and schedule a
\* new one that captures this document
throttledValidateDocument_keepsPending(timeouts, document) ==
    IF timeouts[document.uri] # NoDoc THEN timeouts
    ELSE [timeouts EXCEPT ![document.uri] = document]

throttledValidateDocument(timeouts, document) ==
    [timeouts EXCEPT ![document.uri] = document]

\* the staleness guard after await lint
isStale_never(latest, run) == FALSE

isStale(latest, run) == latest[run.uri] # run.currentVersion

\* the catch block: this.#documentFixes.delete(document.uri)
catchFixes_keeps(fixes, uri) == fixes

catchFixes(fixes, uri) == [fixes EXCEPT ![uri] = NoFixes]

\* validateDocument returns: the execution is over
completeRun_retry(bag, run) == bag

completeRun(bag, run) == bag (-) SetToBag({run})

\* connection.sendDiagnostics
sendDiagnostics(uri, pub) ==
    /\ sent' = uri
    /\ lastPublished' = [lastPublished EXCEPT ![uri] = pub]
    /\ publishedLatest' = [publishedLatest EXCEPT ![uri] =
            /\ pub.version > 0
            /\ @ \/ (pub.version = documents[uri].version /\ pub.inc = documents[uri].inc)]
    /\ UNCHANGED <<call, result, positionEncoding, initializationOptions, settings>>

\* nothing is sent, except that the settings are left to the step
NoSendNewSettings ==
    /\ sent' = NoUri
    /\ UNCHANGED <<lastPublished, publishedLatest, call, result, positionEncoding,
                   initializationOptions>>

NoSend ==
    /\ NoSendNewSettings
    /\ UNCHANGED settings

\* nothing is sent, and the registry got a new version of uri
NoSendNewVersion(uri) ==
    /\ sent' = NoUri
    /\ publishedLatest' = [publishedLatest EXCEPT ![uri] = FALSE]
    /\ UNCHANGED <<lastPublished, call, result, positionEncoding,
                   initializationOptions, settings>>

(***************************************************************************)
(* Protocol handlers.                                                      *)
(***************************************************************************)
\* Array.isArray(general?.positionEncodings) && its length > 0
advertisesEncodings(general) ==
    /\ general # Null
    /\ Has(general, "positionEncodings")
    /\ Len(general.positionEncodings) > 0

\* a negotiation that takes the client's first encoding whatever else it lists
negotiatePositionEncoding_firstAdvertised(current, general) ==
    IF advertisesEncodings(general) THEN general.positionEncodings[1] ELSE current

\* the position encoding onInitialize leaves in #positionEncoding
negotiatePositionEncoding(current, general) ==
    IF advertisesEncodings(general)
    THEN IF \E i \in 1..Len(general.positionEncodings) :
               general.positionEncodings[i] = "utf-16"
         THEN "utf-16"
         ELSE general.positionEncodings[1]
    ELSE current

\* params.initializationOptions || {}
orEmptyObject(value) == IF value = Null THEN EmptyObject ELSE value

\* the initialize request: the answer is the server's capabilities
onInitialize(params) ==
    /\ positionEncoding' =
           negotiatePositionEncoding(positionEncoding, params.general)
    /\ workspaceFolders' = params.workspaceFolders
    /\ rootPath' = chooseRootPath(params.rootPath, params.workspaceFolders)
    /\ initializationOptions' = orEmptyObject(params.initializationOptions)
    /\ settings' = resolveSettings(orEmptyObject(params.initializationOptions))
    /\ call' = [op |-> "initialize", params |-> params]
    /\ result' = [capabilities |-> [positionEncoding |-> positionEncoding']]
    /\ sent' = NoUri
    /\ UNCHANGED <<documents, docOrder, validationTimeouts, documentFixes,
                   latestVersionByUri, configCache, configChangeTimeout,
                   validationInFlight, queuedValidations, runs, configRequests,
                   diskEpoch, notifiedEpoch, opens, lastPublished, enqueued,
                   burstSkipped, publishedLatest>>

onDidOpenTextDocument(uri, version, languageId) ==
    /\ documents[uri] = NoDoc
    /\ LET document == [uri |-> uri, version |-> version,
                        languageId |-> languageId, inc |-> opens[uri] + 1]
       IN /\ documents' = [documents EXCEPT ![uri] = document]
          /\ docOrder' = Append(docOrder, uri)
          /\ validationTimeouts' = throttledValidateDocument(validationTimeouts, document)
    /\ opens' = [opens EXCEPT ![uri] = @ + 1]
    /\ enqueued' = [enqueued EXCEPT ![uri] = FALSE]
    /\ burstSkipped' = [burstSkipped EXCEPT ![uri] = {}]
    /\ NoSendNewVersion(uri)
    /\ UNCHANGED <<documentFixes, latestVersionByUri, configCache, configChangeTimeout,
                   validationInFlight, queuedValidations, workspaceFolders, rootPath,
                   runs, configRequests, diskEpoch, notifiedEpoch>>

onDidChangeTextDocument(uri) ==
    /\ documents[uri] # NoDoc
    /\ LET document == documents[uri]
           updatedDocument == [document EXCEPT !.version = @ + 1]
       IN /\ documents' = [documents EXCEPT ![uri] = updatedDocument]
          /\ validationTimeouts' =
                 throttledValidateDocument(validationTimeouts, updatedDocument)
          /\ burstSkipped' = [burstSkipped EXCEPT ![uri] =
                 IF validationTimeouts[uri] # NoDoc /\ ~enqueued[uri]
                 THEN @ \cup {document.version} ELSE @]
          /\ enqueued' = [enqueued EXCEPT ![uri] = FALSE]
          /\ queuedValidations' = updateQueued(queuedValidations, document, updatedDocument)
          /\ runs' = updateRuns(runs, document, updatedDocument)
    /\ NoSendNewVersion(uri)
    /\ UNCHANGED <<docOrder, documentFixes, latestVersionByUri, configCache,
                   configChangeTimeout, validationInFlight, workspaceFolders, rootPath,
                   configRequests, diskEpoch, notifiedEpoch, opens>>

\* a save handler that goes through the debounce timer like open and change
onDidSaveTextDocument_throttled(uri) ==
    /\ documents[uri] # NoDoc
    /\ validationTimeouts' = throttledValidateDocument(validationTimeouts, documents[uri])
    /\ NoSend
    /\ UNCHANGED <<documents, docOrder, documentFixes, latestVersionByUri, configCache,
                   configChangeTimeout, validationInFlight, queuedValidations,
                   workspaceFolders, rootPath, runs, configRequests, diskEpoch,
                   notifiedEpoch, opens, enqueued, burstSkipped>>

onDidSaveTextDocument(uri) ==
    /\ documents[uri] # NoDoc
    /\ LET S == [Cur EXCEPT !.validationTimeouts[uri] = NoDoc]
       IN Commit(enqueueValidation(S, documents[uri]))
    /\ NoSend
    /\ UNCHANGED <<documents, docOrder, documentFixes, configChangeTimeout,
                   configRequests, diskEpoch, notifiedEpoch, opens, burstSkipped>>

\* a close handler that leaves the queued snapshot behind
onDidCloseTextDocument_keepsQueued(uri) ==
    /\ documents[uri] # NoDoc
    /\ documents' = [documents EXCEPT ![uri] = NoDoc]
    /\ docOrder' = RemoveFromSeq(docOrder, uri)
    /\ documentFixes' = [documentFixes EXCEPT ![uri] = NoFixes]
    /\ latestVersionByUri' = [latestVersionByUri EXCEPT ![uri] = NoVersion]
    /\ validationInFlight' = validationInFlight \ {uri}
    /\ validationTimeouts' = [validationTimeouts EXCEPT ![uri] = NoDoc]
    /\ LET workspaceRoot == getWorkspaceRootFor(workspaceFolders, rootPath, uri)
           cacheKey == <<workspaceRoot, uri>>
       IN configCache' = CacheDelete(configCache, cacheKey)
    /\ sendDiagnostics(uri, [version |-> 0, diagnostics |-> <<>>, options |-> 0,
                             inc |-> documents[uri].inc])
    /\ UNCHANGED <<queuedValidations, configChangeTimeout, workspaceFolders, rootPath,
                   runs, configRequests, diskEpoch, notifiedEpoch, opens, enqueued,
                   burstSkipped>>

onDidCloseTextDocument(uri) ==
    /\ documents[uri] # NoDoc
    /\ documents' = [documents EXCEPT ![uri] = NoDoc]
    /\ docOrder' = RemoveFromSeq(docOrder, uri)
    /\ documentFixes' = [documentFixes EXCEPT ![uri] = NoFixes]
    /\ latestVersionByUri' = [latestVersionByUri EXCEPT ![uri] = NoVersion]
    /\ queuedValidations' = [queuedValidations EXCEPT ![uri] = NoDoc]
    /\ validationInFlight' = validationInFlight \ {uri}
    /\ validationTimeouts' = [validationTimeouts EXCEPT ![uri] = NoDoc]
    /\ LET workspaceRoot == getWorkspaceRootFor(workspaceFolders, rootPath, uri)
           cacheKey == <<workspaceRoot, uri>>
       IN configCache' = CacheDelete(configCache, cacheKey)
    /\ sendDiagnostics(uri, [version |-> 0, diagnostics |-> <<>>, options |-> 0,
                             inc |-> documents[uri].inc])
    /\ UNCHANGED <<configChangeTimeout, workspaceFolders, rootPath, runs, configRequests,
                   diskEpoch, notifiedEpoch, opens, enqueued, burstSkipped>>

\* the setTimeout callback of throttledValidateDocument
validationTimeoutFires(uri) ==
    /\ validationTimeouts[uri] # NoDoc
    /\ LET document == validationTimeouts[uri]
           S == [Cur EXCEPT !.validationTimeouts[uri] = NoDoc]
       IN Commit(IF documents[uri] # NoDoc THEN enqueueValidation(S, document) ELSE S)
    /\ NoSend
    /\ UNCHANGED <<documents, docOrder, documentFixes, configChangeTimeout,
                   configRequests, diskEpoch, notifiedEpoch, opens, burstSkipped>>

\* a configuration file is rewritten on disk
configFileEdited ==
    /\ diskEpoch' = diskEpoch + 1
    /\ NoSend
    /\ UNCHANGED <<documents, docOrder, validationTimeouts, documentFixes,
                   latestVersionByUri, configCache, configChangeTimeout,
                   validationInFlight, queuedValidations, workspaceFolders, rootPath,
                   runs, configRequests, notifiedEpoch, opens, enqueued,
                   burstSkipped>>

\* a handler that clears the cache and re-validates at every event instead of
\* scheduling the timer
onDidChangeWatchedFiles_immediate ==
    /\ notifiedEpoch' = diskEpoch
    /\ LET S == [Cur EXCEPT !.configCache = <<>>]
       IN Commit(enqueueAll(S, docOrder, documents))
    /\ NoSend
    /\ UNCHANGED <<documents, docOrder, documentFixes, configChangeTimeout,
                   configRequests, diskEpoch, opens, burstSkipped>>

onDidChangeWatchedFiles ==
    /\ configChangeTimeout' = TRUE
    /\ notifiedEpoch' = diskEpoch
    /\ NoSend
    /\ UNCHANGED <<documents, docOrder, validationTimeouts, documentFixes,
                   latestVersionByUri, configCache, validationInFlight,
                   queuedValidations, workspaceFolders, rootPath, runs, configRequests,
                   diskEpoch, opens, enqueued, burstSkipped>>

\* the setTimeout callback of onDidChangeWatchedFiles
configChangeTimeoutFires ==
    /\ configChangeTimeout
    /\ LET S == [Cur EXCEPT !.configCache = <<>>]
       IN Commit(enqueueAll(S, docOrder, documents))
    /\ configChangeTimeout' = FALSE
    /\ NoSend
    /\ UNCHANGED <<documents, docOrder, documentFixes, configRequests, diskEpoch,
                   notifiedEpoch, opens, burstSkipped>>

\* onDidChangeConfiguration up to its await of workspace.getConfiguration
onDidChangeConfiguration ==
    /\ configRequests < MaxConfigRequests
    /\ configCache' = <<>>
    /\ configRequests' = configRequests + 1
    /\ NoSend
    /\ UNCHANGED <<documents, docOrder, validationTimeouts, documentFixes,
                   latestVersionByUri, configChangeTimeout, validationInFlight,
                   queuedValidations, workspaceFolders, rootPath, runs, diskEpoch,
                   notifiedEpoch, opens, enqueued, burstSkipped>>

\* workspace.getConfiguration resolves: re-validate every open document
getConfigurationReturns(clientSettings) ==
    /\ configRequests > 0
    /\ configRequests' = configRequests - 1
    /\ LET initializationSettings == resolveSettings(initializationOptions)
           resolvedSettings == resolveSettings(clientSettings)
           S == [Cur EXCEPT !.settings = mergeOptions(initializationSettings,
                                                     resolvedSettings)]
       IN /\ settings' = S.settings
          /\ Commit(enqueueAll(S, docOrder, documents))
    /\ NoSendNewSettings
    /\ UNCHANGED <<documents, docOrder, documentFixes, configChangeTimeout, diskEpoch,
                   notifiedEpoch, opens, burstSkipped>>

\* workspace.getConfiguration rejects: the catch only logs
getConfigurationFails ==
    /\ configRequests > 0
    /\ configRequests' = configRequests - 1
    /\ NoSend
    /\ UNCHANGED <<documents, docOrder, validationTimeouts, documentFixes,
                   latestVersionByUri, configCache, configChangeTimeout,
                   validationInFlight, queuedValidations, workspaceFolders, rootPath,
                   runs, diskEpoch, notifiedEpoch, opens, enqueued, burstSkipped>>

\* a handler that keeps the cache over the change of the folders
onDidChangeWorkspaceFolders_keepsCache(removed, added) ==
    /\ LET kept == SelectSeq(workspaceFolders, LAMBDA folder : folder \notin removed)
           folders == kept \o added
           root == IF isPathInWorkspaceFolders(rootPath, folders)
                   THEN rootPath
                   ELSE chooseRootPath(NoPath, folders)
           S == [Cur EXCEPT !.workspaceFolders = folders,
                            !.rootPath = root]
       IN Commit(enqueueAll(S, docOrder, documents))
    /\ NoSend
    /\ UNCHANGED <<documents, docOrder, documentFixes, configChangeTimeout,
                   configRequests, diskEpoch, notifiedEpoch, opens, burstSkipped>>

onDidChangeWorkspaceFolders(removed, added) ==
    /\ LET kept == SelectSeq(workspaceFolders, LAMBDA folder : folder \notin removed)
           folders == kept \o added
           root == IF isPathInWorkspaceFolders(rootPath, folders)
                   THEN rootPath
                   ELSE chooseRootPath(NoPath, folders)
           S == [Cur EXCEPT !.workspaceFolders = folders,
                            !.rootPath = root,
                            !.configCache = <<>>]
       IN Commit(enqueueAll(S, docOrder, documents))
    /\ NoSend
    /\ UNCHANGED <<documents, docOrder, documentFixes, configChangeTimeout,
                   configRequests, diskEpoch, notifiedEpoch, opens, burstSkipped>>

(***************************************************************************)
(* Continuations of validateDocument.                                      *)
(***************************************************************************)
\* await loadConfig(...) resolves: insert into the cache, go on to lint
loadConfigReturns(run, options) ==
    /\ BagIn(run, runs)
    /\ run.pc = "loadConfig"
    /\ LET resumed == [run EXCEPT !.pc = "lint", !.options = options,
                                  !.settings = settings]
       IN runs' = (runs (-) SetToBag({run})) (+) SetToBag({resumed})
    /\ configCache' = CacheInsert(configCache, run.cacheKey, options)
    /\ NoSend
    /\ UNCHANGED <<documents, docOrder, validationTimeouts, documentFixes,
                   latestVersionByUri, configChangeTimeout, validationInFlight,
                   queuedValidations, workspaceFolders, rootPath, configRequests,
                   diskEpoch, notifiedEpoch, opens, enqueued, burstSkipped>>

\* await lint(options) resolves
lintReturns(run, issues) ==
    /\ BagIn(run, runs)
    /\ run.pc = "lint"
    /\ IF isStale(latestVersionByUri, run)
       THEN \* stale: discard
            /\ NoSend
            /\ UNCHANGED documentFixes
       ELSE /\ documentFixes' = [documentFixes EXCEPT ![run.uri] =
                   [present |-> TRUE, pairs |-> issuesToFixPairs(issues)]]
            /\ sendDiagnostics(run.uri, [version |-> run.currentVersion,
                                diagnostics |-> issuesToDiagnostics(issues),
                                options |-> run.options,
                                inc |-> run.document.inc])
    /\ LET S == [Cur EXCEPT !.runs = completeRun(@, run)]
       IN Commit(finally(S, run.uri))
    /\ UNCHANGED <<documents, docOrder, configChangeTimeout, configRequests, diskEpoch,
                   notifiedEpoch, opens, burstSkipped>>

\* await lint(options) rejects: the catch block
lintThrows(run) ==
    /\ BagIn(run, runs)
    /\ run.pc = "lint"
    /\ documentFixes' = catchFixes(documentFixes, run.uri)
    /\ sendDiagnostics(run.uri, [version |-> run.currentVersion,
                        diagnostics |-> <<>>, options |-> run.options,
                        inc |-> run.document.inc])
    /\ LET S == [Cur EXCEPT !.runs = completeRun(@, run)]
       IN Commit(finally(S, run.uri))
    /\ UNCHANGED <<documents, docOrder, configChangeTimeout, configRequests, diskEpoch,
                   notifiedEpoch, opens, burstSkipped>>

(***************************************************************************)
(* The environment: which events the client and the collaborators produce, *)
(* within the bounds.                                                      *)
(***************************************************************************)
DocumentEvents(uris, languageIds, maxVersion, maxOpens) ==
    \/ \E uri \in uris, languageId \in languageIds :
          opens[uri] < maxOpens /\ onDidOpenTextDocument(uri, 1, languageId)
    \/ \E uri \in uris :
          documents[uri].version < maxVersion /\ onDidChangeTextDocument(uri)
    \/ \E uri \in uris : onDidSaveTextDocument(uri)
    \/ \E uri \in uris : validationTimeoutFires(uri)

CloseEvents(uris) == \E uri \in uris : onDidCloseTextDocument(uri)

\* what loadConfig(document.uri, workspaceRoot) || {} can resolve to: the
\* configuration files as they are on disk at some moment of the search, or
\* {} for a document that is not a file
loadConfigResults(run) ==
    IF startsWithFile(run.uri) THEN run.options..diskEpoch ELSE {EmptyOptions}

Continuations ==
    \/ \E run \in BagToSet(runs) : \E options \in loadConfigResults(run) :
          loadConfigReturns(run, options)
    \/ \E run \in BagToSet(runs), issues \in LintResults : lintReturns(run, issues)
    \/ \E run \in BagToSet(runs) : lintThrows(run)

ConfigFileEvents ==
    \/ diskEpoch < MaxEpoch /\ configFileEdited
    \/ onDidChangeWatchedFiles
    \/ configChangeTimeoutFires

\* one document, every document event
Next ==
    \/ DocumentEvents({UriA}, LanguageIds, MaxVersion, MaxOpens)
    \/ CloseEvents({UriA})
    \/ Continuations

Spec == Init /\ [][Next]_vars

\* one document, and configuration files that change on disk
NextConfig ==
    \/ DocumentEvents({UriA}, {"markdown"}, ConfigMaxVersion, ConfigMaxOpens)
    \/ CloseEvents({UriA})
    \/ Continuations
    \/ ConfigFileEvents

SpecConfig == Init /\ [][NextConfig]_vars

\* two documents that stay open
NextMulti ==
    \/ DocumentEvents(URIs, {"markdown"}, MultiMaxVersion, MultiMaxOpens)
    \/ Continuations

SpecMulti == Init /\ [][NextMulti]_vars

(***************************************************************************)
(* Vocabulary of the properties.                                           *)
(***************************************************************************)
IsOpen(uri) == documents[uri] # NoDoc

IsOpenMarkdown(uri) == IsOpen(uri) /\ documents[uri].languageId = "markdown"

\* the last step published a diagnostic set stamped with a version for uri
PublishedVersioned(uri) == sent = uri /\ lastPublished[uri].version > 0

\* nothing is left to happen for uri unless a new event arrives
Quiescent(uri) ==
    /\ validationTimeouts[uri] = NoDoc
    /\ queuedValidations[uri] = NoDoc
    /\ RunsOfUri(runs, uri) = 0
    /\ ~configChangeTimeout
    /\ configRequests = 0

(***************************************************************************)
(* C1: whenever diagnostics of a run are published for a uri whose         *)
(* document is in the registry, the version the publication is stamped     *)
(* with is the version of the document the registry holds.                 *)
(***************************************************************************)
C1_PublishedVersionIsCurrent ==
    \A uri \in URIs :
        (PublishedVersioned(uri) /\ IsOpen(uri)) =>
            documents[uri].version = lastPublished[uri].version

(***************************************************************************)
(* C2: a markdown document that stays open gets diagnostics for its latest *)
(* version: once every timer has fired and every run has returned, so that *)
(* nothing more happens unless a new event arrives, diagnostics of a run   *)
(* on the document, stamped with the registry's version, have been         *)
(* published.                                                              *)
(***************************************************************************)
C2_LatestVersionValidated ==
    \A uri \in URIs :
        (IsOpenMarkdown(uri) /\ Quiescent(uri)) => publishedLatest[uri]

\* the document was edited up to its last version and has come to rest with
\* diagnostics of that version published
C2_Witness ==
    /\ IsOpenMarkdown(UriA)
    /\ Quiescent(UriA)
    /\ documents[UriA].version = MaxVersion
    /\ lastPublished[UriA].version = MaxVersion
    /\ lastPublished[UriA].inc = documents[UriA].inc

(***************************************************************************)
(* C3: at most one validateDocument execution is in flight per uri.        *)
(***************************************************************************)
C3_SingleFlight == \A uri \in URIs : RunsOfUri(runs, uri) <= 1

(***************************************************************************)
(* C4: edits that arrive while the debounce timer is pending are           *)
(* coalesced. The pending timer always captures the registry's document    *)
(* (the final edit), and a version that an edit replaced while its timer   *)
(* was pending is never enqueued: no run of the open document analyses it, *)
(* it is never queued, never stamped as latest, and no diagnostics stamped *)
(* with it are published.                                                  *)
(***************************************************************************)
C4_BurstCoalesced ==
    \A uri \in URIs :
        /\ validationTimeouts[uri] # NoDoc => validationTimeouts[uri] = documents[uri]
        /\ \A v \in burstSkipped[uri] :
              /\ latestVersionByUri[uri] # v
              /\ queuedValidations[uri] = NoDoc \/ queuedValidations[uri].version # v
              /\ \A run \in BagToSet(runs) :
                    (run.uri = uri /\ run.document.inc = opens[uri]) =>
                        run.currentVersion # v
              /\ PublishedVersioned(uri) => lastPublished[uri].version # v

(***************************************************************************)
(* C5: between a close of a uri and its next open, every diagnostic set    *)
(* published for it is empty, no debounce timer is pending for it and no   *)
(* snapshot is queued for it.                                              *)
(***************************************************************************)
C5_ClosedPublishesOnlyEmpty ==
    \A uri \in URIs :
        ~IsOpen(uri) =>
            /\ sent = uri => lastPublished[uri].diagnostics = <<>>
            /\ validationTimeouts[uri] = NoDoc
            /\ queuedValidations[uri] = NoDoc

\* a run that was in flight at close time has completed (it failed) and published
C5_Witness ==
    /\ ~IsOpen(UriA)
    /\ PublishedVersioned(UriA)

(***************************************************************************)
(* C6: the step that handles a close of a uri (the registry loses the      *)
(* document) publishes an empty diagnostic set for it and leaves no entry  *)
(* for it in the fix map, the latest-version map, the queued-validation    *)
(* map, the in-flight set, the debounce-timer map, nor its config-cache    *)
(* entry.                                                                  *)
(***************************************************************************)
C6_CloseClearsDocumentState ==
    [][\A uri \in URIs :
          (documents[uri] # NoDoc /\ documents'[uri] = NoDoc) =>
              /\ sent' = uri
              /\ lastPublished'[uri].diagnostics = <<>>
              /\ lastPublished'[uri].version = 0
              /\ documentFixes'[uri] = NoFixes
              /\ latestVersionByUri'[uri] = NoVersion
              /\ queuedValidations'[uri] = NoDoc
              /\ uri \notin validationInFlight'
              /\ validationTimeouts'[uri] = NoDoc
              /\ CacheIndex(configCache',
                     <<getWorkspaceRootFor(workspaceFolders, rootPath, uri), uri>>) = 0
      ]_vars

\* a close has just been handled while a run of the document was in flight
C6_Witness ==
    /\ ~IsOpen(UriA)
    /\ sent = UriA
    /\ lastPublished[UriA].version = 0
    /\ RunsOfUri(runs, UriA) > 0

(***************************************************************************)
(* C7: after a configuration file changed on disk and the watched-files    *)
(* event was handled, every open markdown document ends up with published  *)
(* diagnostics computed with options read after the change: once the       *)
(* config-change timer has fired and every run has returned, the options   *)
(* of the last publication are not older than the notified change.         *)
(***************************************************************************)
C7_RevalidatedWithNewConfig ==
    \A uri \in URIs :
        (IsOpenMarkdown(uri) /\ Quiescent(uri)) =>
            lastPublished[uri].options >= notifiedEpoch

(***************************************************************************)
(* C8: the fix list stored for a uri is exactly the list of the            *)
(* diagnostic/fix pairs of the diagnostics last published for that uri,    *)
(* and it is absent or empty when the last publication was empty.          *)
(***************************************************************************)
RECURSIVE FixPairsOf(_)
FixPairsOf(diagnostics) ==
    IF diagnostics = <<>> THEN <<>>
    ELSE (IF Head(diagnostics).code = IssueFixable.ruleName
          THEN <<[diagnostic |-> Head(diagnostics),
                  fixInfo |-> [lineNumber |-> Head(diagnostics).line + 1]]>>
          ELSE <<>>)
         \o FixPairsOf(Tail(diagnostics))

C8_FixesMatchPublished ==
    \A uri \in URIs :
        /\ documentFixes[uri].pairs = FixPairsOf(lastPublished[uri].diagnostics)
        /\ documentFixes[uri].present => lastPublished[uri].version > 0

\* fixes of a published result are stored while a newer run is in flight
C8_Witness ==
    /\ documentFixes[UriA].pairs # <<>>
    /\ \E run \in BagToSet(runs) :
          run.uri = UriA /\ run.currentVersion > lastPublished[UriA].version

(***************************************************************************)
(* C9 as stated, for two successive publications: the server never         *)
(* publishes diagnostics twice for the same (uri, version) pair, so a      *)
(* versioned publication for a document never carries the version of the   *)
(* publication made before it for the same document.                       *)
(***************************************************************************)
C9_NeverPublishedTwice ==
    [][\A uri \in URIs :
          (sent' = uri /\ lastPublished'[uri].version > 0) =>
              ~(/\ lastPublished[uri].version = lastPublished'[uri].version
                /\ lastPublished[uri].inc = lastPublished'[uri].inc)
      ]_vars

(***************************************************************************)
(* C9 amended: every versioned publication is made by one run that read    *)
(* that version at its start, and ends it: the run is gone afterwards, so  *)
(* a run publishes at most once, and the only run the step may start is    *)
(* the one for the document that was queued.                               *)
(***************************************************************************)
C9_OnePublicationPerRun ==
    [][\A uri \in URIs :
          (sent' = uri /\ lastPublished'[uri].version > 0) =>
              /\ \E run \in BagToSet(runs) :
                    /\ run.uri = uri
                    /\ run.pc = "lint"
                    /\ run.currentVersion = lastPublished'[uri].version
                    /\ run.document.inc = lastPublished'[uri].inc
              /\ RunsOfUri(runs', uri) =
                    RunsOfUri(runs, uri) - 1
                    + (IF queuedValidations[uri] # NoDoc THEN 1 ELSE 0)
      ]_vars

\* version v has just been published and a further run for v is in flight
C9_Witness ==
    /\ PublishedVersioned(UriA)
    /\ \E run \in BagToSet(runs) :
          /\ run.uri = UriA
          /\ run.document.inc = lastPublished[UriA].inc
          /\ run.currentVersion = lastPublished[UriA].version

(***************************************************************************)
(* C10: when lint throws in a run for version v of a uri, the step         *)
(* publishes an empty diagnostic set stamped v for the uri and removes the *)
(* uri's fix list; the run is not retried; a snapshot queued for the uri   *)
(* is started; and the timers, queue, in-flight marker and runs of every   *)
(* other uri are untouched.                                                *)
(***************************************************************************)
C10_LintFailureIsContained ==
    [][\A run \in BagToSet(runs) :
          lintThrows(run) =>
              /\ sent' = run.uri
              /\ lastPublished'[run.uri].version = run.currentVersion
              /\ lastPublished'[run.uri].diagnostics = <<>>
              /\ documentFixes'[run.uri] = NoFixes
              /\ RunsOfUri(runs', run.uri) =
                    RunsOfUri(runs, run.uri) - 1
                    + (IF queuedValidations[run.uri] # NoDoc THEN 1 ELSE 0)
              /\ queuedValidations[run.uri] # NoDoc =>
                    /\ queuedValidations'[run.uri] = NoDoc
                    /\ run.uri \in validationInFlight'
                    /\ \E next \in BagToSet(runs') :
                          /\ next.document = queuedValidations[run.uri]
                          /\ CopiesIn(next, runs') > CopiesIn(next, runs (-) SetToBag({run}))
              /\ \A other \in URIs \ {run.uri} :
                    /\ validationTimeouts'[other] = validationTimeouts[other]
                    /\ queuedValidations'[other] = queuedValidations[other]
                    /\ (other \in validationInFlight') = (other \in validationInFlight)
                    /\ documentFixes'[other] = documentFixes[other]
                    /\ lastPublished'[other] = lastPublished[other]
                    /\ \A r \in BagToSet(runs) \cup BagToSet(runs') :
                          r.uri = other => CopiesIn(r, runs') = CopiesIn(r, runs)
      ]_vars

\* a run has just failed while a snapshot was queued behind it and the other
\* document was being validated
C10_Witness ==
    /\ PublishedVersioned(UriA)
    /\ documentFixes[UriA] = NoFixes
    /\ RunsOfUri(runs, UriA) > 0
    /\ RunsOfUri(runs, UriB) > 0

(***************************************************************************)
(* Code actions: the "Fix all" action of onCodeAction.                     *)
(*                                                                         *)
(* A document is its sequence of lines, a line the sequence of its         *)
(* characters (without the line break); positions are zero-based.  A fix   *)
(* is markdownlint's fixInfo, with 0 and <<>> for the fields it leaves     *)
(* out.                                                                    *)
(***************************************************************************)
MaxFixes == 2
MaxEditColumn == 3
MaxDeleteCount == 2

NoEdit == [newText |-> <<>>, null |-> TRUE]

getLineText(document, line) ==
    IF line < 0 \/ line >= Len(document.lines) THEN <<>> ELSE document.lines[line + 1]

Min(a, b) == IF a <= b THEN a ELSE b

\* a conversion that does not clamp to the length of the line
fixInfoToTextEdit_unclamped(fixInfo, diagnostic, document) ==
    LET lineNumber == IF fixInfo.lineNumber # 0 THEN fixInfo.lineNumber - 1
                      ELSE diagnostic.line
        editColumn == (IF fixInfo.editColumn # 0 THEN fixInfo.editColumn ELSE 1) - 1
        deleteCount == fixInfo.deleteCount
        insertText == fixInfo.insertText
    IN IF deleteCount = 0 /\ insertText = <<>> THEN NoEdit
       ELSE IF lineNumber < 0 \/ lineNumber >= Len(document.lines) THEN NoEdit
       ELSE IF editColumn < 0 THEN NoEdit
       ELSE IF deleteCount < 0 THEN NoEdit
       ELSE [range |-> [start |-> [line |-> lineNumber, character |-> editColumn],
                        end |-> [line |-> lineNumber,
                                 character |-> editColumn + deleteCount]],
             newText |-> insertText]

fixInfoToTextEdit(fixInfo, diagnostic, document) ==
    LET lineNumber == IF fixInfo.lineNumber # 0 THEN fixInfo.lineNumber - 1
                      ELSE diagnostic.line
        editColumn == (IF fixInfo.editColumn # 0 THEN fixInfo.editColumn ELSE 1) - 1
        deleteCount == fixInfo.deleteCount
        insertText == fixInfo.insertText
        lineLen == Len(getLineText(document, lineNumber))
        startChar == Min(editColumn, lineLen)
        endChar == Min(editColumn + deleteCount, lineLen)
    IN IF deleteCount = 0 /\ insertText = <<>> THEN NoEdit
       ELSE IF lineNumber < 0 \/ lineNumber >= Len(document.lines) THEN NoEdit
       ELSE IF editColumn < 0 THEN NoEdit
       ELSE IF deleteCount < 0 THEN NoEdit
       ELSE IF startChar = endChar /\ insertText = <<>> THEN NoEdit
       ELSE [range |-> [start |-> [line |-> lineNumber, character |-> startChar],
                        end |-> [line |-> lineNumber, character |-> endChar]],
             newText |-> insertText]

\* the comparison of range1's end with range2's end instead of its start
rangesOverlap_endToEnd(range1, range2) ==
    IF \/ range1.end.line < range2.end.line
       \/ /\ range1.end.line = range2.end.line
          /\ range1.end.character <= range2.end.character
    THEN FALSE
    ELSE IF \/ range2.end.line < range1.start.line
            \/ /\ range2.end.line = range1.start.line
               /\ range2.end.character <= range1.start.character
         THEN FALSE
         ELSE TRUE

rangesOverlap(range1, range2) ==
    IF \/ range1.end.line < range2.start.line
       \/ /\ range1.end.line = range2.start.line
          /\ range1.end.character <= range2.start.character
    THEN FALSE
    ELSE IF \/ range2.end.line < range1.start.line
            \/ /\ range2.end.line = range1.start.line
               /\ range2.end.character <= range1.start.character
         THEN FALSE
         ELSE TRUE

\* the edits of the pairs that have one, in the order of the pairs
RECURSIVE allTextEdits(_, _)
allTextEdits(diagnosticFixPairs, document) ==
    IF diagnosticFixPairs = <<>> THEN <<>>
    ELSE LET pair == Head(diagnosticFixPairs)
             textEdit == fixInfoToTextEdit(pair.fixInfo, pair.diagnostic, document)
         IN (IF textEdit = NoEdit THEN <<>> ELSE <<textEdit>>)
            \o allTextEdits(Tail(diagnosticFixPairs), document)

\* a comparator for the ascending order of the start positions
compareEdits_ascending(a, b) ==
    LET lineDiff == a.range.start.line - b.range.start.line
    IN IF lineDiff # 0 THEN lineDiff
       ELSE a.range.start.character - b.range.start.character

\* the comparator of the sort: negative when a goes before b
compareEdits(a, b) ==
    LET lineDiff == b.range.start.line - a.range.start.line
    IN IF lineDiff # 0 THEN lineDiff
       ELSE b.range.start.character - a.range.start.character

\* Array.prototype.sort is stable: an edit goes behind those it does not precede
RECURSIVE insertSorted(_, _)
insertSorted(sorted, edit) ==
    IF sorted = <<>> THEN <<edit>>
    ELSE IF compareEdits(Head(sorted), edit) <= 0
         THEN <<Head(sorted)>> \o insertSorted(Tail(sorted), edit)
         ELSE <<edit>> \o sorted

RECURSIVE sortEdits(_)
sortEdits(edits) ==
    IF edits = <<>> THEN <<>>
    ELSE insertSorted(sortEdits(SubSeq(edits, 1, Len(edits) - 1)), edits[Len(edits)])

\* keep an edit unless it overlaps one that was kept before it
RECURSIVE nonOverlappingEdits(_, _)
nonOverlappingEdits(kept, edits) ==
    IF edits = <<>> THEN kept
    ELSE LET edit == Head(edits)
             overlaps == \E i \in 1..Len(kept) : rangesOverlap(edit.range, kept[i].range)
         IN nonOverlappingEdits(IF overlaps THEN kept ELSE Append(kept, edit), Tail(edits))

\* the code actions returned for a request that admits source.fixAll only
fixAllActions(document, diagnosticFixPairs) ==
    LET edits == allTextEdits(diagnosticFixPairs, document)
    IN IF diagnosticFixPairs = <<>> \/ edits = <<>> THEN <<>>
       ELSE <<[kind |-> "source.fixAll",
               edits |-> nonOverlappingEdits(<<>>, sortEdits(edits))]>>

onCodeActionFixAll(document, diagnosticFixPairs) ==
    /\ call' = [op |-> "fixAll", document |-> document,
                diagnosticFixPairs |-> diagnosticFixPairs]
    /\ result' = fixAllActions(document, diagnosticFixPairs)
    /\ UNCHANGED serverVars

(***************************************************************************)
(* The documents and fixes the code-action requests are made for.          *)
(***************************************************************************)
\* a document of two lines, "abcd" and "a"
TwoLineDocument == [lines |-> <<<<"a", "b", "c", "d">>, <<"a">>>>]

\* every fix of a diagnostic on the first line that stays within the bounds
FixInfos ==
    [lineNumber : {0, 2}, editColumn : 1..MaxEditColumn,
     deleteCount : 0..MaxDeleteCount, insertText : {<<>>, <<"x">>}]

FixPairs == {[diagnostic |-> [line |-> 0, code |-> "MD009"], fixInfo |-> fixInfo] :
             fixInfo \in FixInfos}

\* the document of test/fix-all.test.mjs, "#Heading\n\nText  ", with the fixes
\* markdownlint reports for it: MD018 (a space after the hash) and MD047 (a
\* line break at the end of the file)
HeadingDocument ==
    [lines |-> << <<"#", "H", "e", "a", "d", "i", "n", "g">>,
                  <<>>,
                  <<"T", "e", "x", "t", " ", " ">> >>]

HeadingFixPairs ==
    << [diagnostic |-> [line |-> 0, code |-> "MD018"],
        fixInfo |-> [lineNumber |-> 0, editColumn |-> 2, deleteCount |-> 0,
                     insertText |-> <<" ">>]],
       [diagnostic |-> [line |-> 2, code |-> "MD047"],
        fixInfo |-> [lineNumber |-> 0, editColumn |-> 7, deleteCount |-> 0,
                     insertText |-> <<"\n">>]] >>

SeqsUpTo(S, n) == UNION {[1..len -> S] : len \in 0..n}

FixAllRequests ==
    {[document |-> TwoLineDocument, diagnosticFixPairs |-> pairs] :
        pairs \in SeqsUpTo(FixPairs, MaxFixes)}
    \cup {[document |-> HeadingDocument, diagnosticFixPairs |-> HeadingFixPairs]}

\* one code-action request on a freshly started server
NextFixAll ==
    /\ call = NoCall
    /\ \E request \in FixAllRequests :
           onCodeActionFixAll(request.document, request.diagnosticFixPairs)

SpecFixAll == Init /\ [][NextFixAll]_vars

\* the positions of a document, the one behind the last character of a line included
Positions(document) ==
    UNION {{[line |-> line, character |-> character] :
                character \in 0..Len(document.lines[line + 1])} :
           line \in 0..(Len(document.lines) - 1)}

Before(p, q) ==
    p.line < q.line \/ (p.line = q.line /\ p.character < q.character)

\* two ranges overlap when some position lies in both (a range ends before its end)
SharePosition(document, range1, range2) ==
    \E p \in Positions(document) :
        /\ ~Before(p, range1.start) /\ Before(p, range1.end)
        /\ ~Before(p, range2.start) /\ Before(p, range2.end)

\* C11: no two text edits of a fix-all code action have overlapping ranges
C11_FixAllEditsDoNotOverlap ==
    call.op = "fixAll" =>
        \A a \in 1..Len(result) :
            \A i, j \in 1..Len(result[a].edits) :
                i < j => ~SharePosition(call.document, result[a].edits[i].range,
                                        result[a].edits[j].range)

\* two fixes whose edits overlap were requested and only one edit was returned
C11_Witness ==
    /\ call.op = "fixAll"
    /\ Len(call.diagnosticFixPairs) = 2
    /\ LET edits == allTextEdits(call.diagnosticFixPairs, call.document)
       IN /\ Len(edits) = 2
          /\ SharePosition(call.document, edits[1].range, edits[2].range)
    /\ Len(result) = 1
    /\ Len(result[1].edits) = 1

\* the text of a document: its lines joined by line breaks
RECURSIVE getText(_)
getText(lines) ==
    IF lines = <<>> THEN <<>>
    ELSE IF Len(lines) = 1 THEN lines[1]
    ELSE lines[1] \o <<"\n">> \o getText(Tail(lines))

\* the lines after a client applied the edits, given from the end of the text
\* to its start (every edit lies within one line)
RECURSIVE applyEdits(_, _)
applyEdits(lines, edits) ==
    IF edits = <<>> THEN lines
    ELSE LET edit == Head(edits)
             line == lines[edit.range.start.line + 1]
             edited == SubSeq(line, 1, edit.range.start.character)
                       \o edit.newText
                       \o SubSeq(line, edit.range.end.character + 1, Len(line))
         IN applyEdits([lines EXCEPT ![edit.range.start.line + 1] = edited], Tail(edits))

\* the whole text of the document with its fixes applied
FixedText(document, diagnosticFixPairs) ==
    getText(applyEdits(document.lines,
                       nonOverlappingEdits(<<>>,
                           sortEdits(allTextEdits(diagnosticFixPairs, document)))))

\* "# Heading\n\nText  \n"
FixedHeadingText ==
    <<"#", " ", "H", "e", "a", "d", "i", "n", "g", "\n", "\n",
      "T", "e", "x", "t", " ", " ", "\n">>

\* C12: the fix-all code action of a document with auto-fixable issues has
\* exactly one text edit, whose new text is the whole text of the document
\* with all fixes applied; for "#Heading\n\nText  " it is "# Heading\n\nText  \n"
C12_FixAllIsOneWholeDocumentEdit ==
    (call.op = "fixAll" /\ allTextEdits(call.diagnosticFixPairs, call.document) # <<>>) =>
        /\ Len(result) = 1
        /\ Len(result[1].edits) = 1
        /\ result[1].edits[1].newText = FixedText(call.document, call.diagnosticFixPairs)
        /\ call.document = HeadingDocument => result[1].edits[1].newText = FixedHeadingText

\* the fixes of the heading document, applied, give the text the test expects
C12_HeadingFixesGiveExpectedText ==
    FixedText(HeadingDocument, HeadingFixPairs) = FixedHeadingText

\* what the server returns for the heading document: two insertions
C12_HeadingGetsTwoEdits ==
    call.op = "fixAll" /\ call.document = HeadingDocument =>
        /\ Len(result[1].edits) = 2
        /\ result[1].edits[1].newText = <<"\n">>
        /\ result[1].edits[2].newText = <<" ">>

(***************************************************************************)
(* The config cache at its capacity.  The cache fills up with the entries  *)
(* of further documents of the folder, which are opened and validated to   *)
(* completion while the two documents of the model do what they do.        *)
(***************************************************************************)
CacheMaxOpens == 2

OtherUri(k) == "file:///w/other/" \o ToString(k) \o ".md"
OtherKey(k) == <<FolderW, OtherUri(k)>>

CacheKeys(cache) == {cache[i].key : i \in 1..Len(cache)}

\* the number of further documents validated so far
OthersValidated(cache) ==
    LET keys == CacheKeys(cache)
        cached == {k \in 1..CONFIG_CACHE_MAX_SIZE : OtherKey(k) \in keys}
    IN IF cached = {} THEN 0 ELSE CHOOSE k \in cached : \A l \in cached : l <= k

\* the validations of n further documents, the first of them document k: each
\* misses the cache, loads its configuration and inserts it behind the entries
\* of a cache that stays below its capacity
validateOthers(cache, k, n, options) ==
    cache \o [i \in 1..n |-> [key |-> OtherKey(k + i - 1), options |-> options,
                               used |-> Len(cache) + i]]

\* further documents are validated until the cache holds size entries
otherDocumentsValidated(size) ==
    /\ Len(configCache) < size
    /\ configCache' = validateOthers(configCache, OthersValidated(configCache) + 1,
                                     size - Len(configCache), diskEpoch)
    /\ NoSend
    /\ UNCHANGED <<documents, docOrder, validationTimeouts, documentFixes,
                   latestVersionByUri, configChangeTimeout, validationInFlight,
                   queuedValidations, workspaceFolders, rootPath, runs, configRequests,
                   diskEpoch, notifiedEpoch, opens, enqueued, burstSkipped>>

CacheFillLevels == {2, CONFIG_CACHE_MAX_SIZE - 1, CONFIG_CACHE_MAX_SIZE}

\* two documents that are opened and validated while the cache fills up
NextCache ==
    \/ \E uri \in URIs :
          opens[uri] < CacheMaxOpens /\ onDidOpenTextDocument(uri, 1, "markdown")
    \/ \E uri \in URIs : validationTimeoutFires(uri)
    \/ Continuations
    \/ \E size \in CacheFillLevels : otherDocumentsValidated(size)

SpecCache == Init /\ [][NextCache]_vars

\* the same, and the first document can be closed and opened again
NextLru ==
    \/ NextCache
    \/ CloseEvents({UriA})

SpecLru == Init /\ [][NextLru]_vars

\* C13: the config cache never holds more than its capacity of 100 entries,
\* also when several documents miss it concurrently and insert afterwards
C13_CacheWithinCapacity == Len(configCache) <= CONFIG_CACHE_MAX_SIZE

\* both documents missed the cache, and the later of their insertions found the
\* cache full and evicted the first of the other entries
C13_Witness ==
    /\ Len(configCache) = CONFIG_CACHE_MAX_SIZE
    /\ \A uri \in URIs : <<FolderW, uri>> \in CacheKeys(configCache)
    /\ OtherKey(1) \notin CacheKeys(configCache)
    /\ OtherKey(2) \in CacheKeys(configCache)
    /\ \A uri \in URIs : RunsOfUri(runs, uri) > 0

\* C14: an insertion into a full cache evicts exactly one entry, the one whose
\* last use (insertion or cache hit) is the oldest; a cache hit is a use and
\* moves the entry to the most recently used end
C14_EvictsLeastRecentlyUsed ==
    [][/\ (/\ Len(configCache) >= CONFIG_CACHE_MAX_SIZE
           /\ CacheKeys(configCache') \ CacheKeys(configCache) # {})
          => \E i \in 1..Len(configCache) :
                /\ configCache[i].used = 1
                /\ CacheKeys(configCache) \ CacheKeys(configCache') = {configCache[i].key}
       /\ \A run \in BagToSet(runs') :
             (run.cached /\ CopiesIn(run, runs') > CopiesIn(run, runs))
             => /\ configCache' # <<>>
                /\ configCache'[Len(configCache')].key = run.cacheKey
                /\ configCache'[Len(configCache')].used = Len(configCache')
      ]_vars

(***************************************************************************)
(* Resolving the configuration of a location again.                        *)
(***************************************************************************)
SettingsEvents ==
    \/ onDidChangeConfiguration
    \/ \E clientSettings \in ClientSettings : getConfigurationReturns(clientSettings)
    \/ getConfigurationFails

\* one document that stays open, configuration files that change on disk and
\* client settings that change
NextSettings ==
    \/ DocumentEvents({UriA}, {"markdown"}, ConfigMaxVersion, ConfigMaxOpens)
    \/ Continuations
    \/ ConfigFileEvents
    \/ SettingsEvents

SpecSettings == Init /\ [][NextSettings]_vars

\* the step starts this execution of validateDocument
Started(run) ==
    /\ CopiesIn(run, runs') > CopiesIn(run, runs)
    /\ run.cached \/ run.pc = "loadConfig"

\* the configuration of the document's location was resolved for a published
\* validation, from the configuration files as they are now
ResolvedBefore(uri) ==
    /\ lastPublished[uri].version > 0
    /\ lastPublished[uri].inc = documents[uri].inc
    /\ lastPublished[uri].options = diskEpoch

MARKDOWNLINT_CLI2_CONFIG_FILENAMES ==
    <<".markdownlint-cli2.jsonc", ".markdownlint-cli2.yaml", ".markdownlint-cli2.yml",
      ".markdownlint-cli2.cjs", ".markdownlint-cli2.mjs">>

MARKDOWNLINT_CONFIG_FILENAMES ==
    <<".markdownlint.jsonc", ".markdownlint.json", ".markdownlint.yaml",
      ".markdownlint.yml", ".markdownlint.cjs", ".markdownlint.mjs">>

MARKDOWNLINT_RC_CONFIG_FILENAMES == <<".markdownlintrc", ".markdownlint/config">>

ALL_CONFIG_FILENAMES_EXCEPT_PACKAGE_JSON ==
    MARKDOWNLINT_CLI2_CONFIG_FILENAMES \o MARKDOWNLINT_CONFIG_FILENAMES
    \o MARKDOWNLINT_RC_CONFIG_FILENAMES

ALL_CONFIG_FILENAMES == ALL_CONFIG_FILENAMES_EXCEPT_PACKAGE_JSON \o <<"package.json">>

SeqRange(s) == {s[i] : i \in 1..Len(s)}

Absent == [status |-> "ENOENT"]
Unreadable == [status |-> "error"]
Parsed(body) == [status |-> "ok", config |-> body]

\* path.dirname
dirname(p) == IF p = <<>> THEN p ELSE SubSeq(p, 1, Len(p) - 1)

isSubdirectory(parent, child) ==
    /\ Len(parent) <= Len(child)
    /\ SubSeq(child, 1, Len(parent)) = parent

\* readMarkdownlintConfig: what reading and parsing the file at dir/filename gives
readMarkdownlintConfig(fs, dir, filename) ==
    IF dir \in DOMAIN fs /\ filename \in DOMAIN fs[dir] THEN fs[dir][filename] ELSE Absent

\* the search stops at the first candidate that is there, readable or not
RECURSIVE findHighestPrecedenceConfigFileInDir_stopsAtUnreadable(_, _, _)
findHighestPrecedenceConfigFileInDir_stopsAtUnreadable(fs, dir, filenames) ==
    IF filenames = <<>> THEN Null
    ELSE LET filename == Head(filenames)
             read == readMarkdownlintConfig(fs, dir, filename)
         IN IF read.status = "ENOENT"
            THEN findHighestPrecedenceConfigFileInDir_stopsAtUnreadable(
                     fs, dir, Tail(filenames))
            ELSE IF read.status = "error" THEN Null
            ELSE IF filename = "package.json"
                 THEN IF Has(read.config, "markdownlint-cli2")
                      THEN [dir |-> dir, filename |-> filename,
                            config |-> read.config["markdownlint-cli2"]]
                      ELSE Null
                 ELSE [dir |-> dir, filename |-> filename, config |-> read.config]

\* the last candidate that can be read and parsed, not the first
RECURSIVE findHighestPrecedenceConfigFileInDir_lastWins(_, _, _)
findHighestPrecedenceConfigFileInDir_lastWins(fs, dir, filenames) ==
    IF filenames = <<>> THEN Null
    ELSE LET filename == Head(filenames)
             read == readMarkdownlintConfig(fs, dir, filename)
             next == findHighestPrecedenceConfigFileInDir_lastWins(
                         fs, dir, Tail(filenames))
         IN IF next # Null \/ read.status # "ok" THEN next
            ELSE [dir |-> dir, filename |-> filename, config |-> read.config]

\* the first candidate, in the order of the names, that can be read and parsed
RECURSIVE findHighestPrecedenceConfigFileInDir(_, _, _)
findHighestPrecedenceConfigFileInDir(fs, dir, filenames) ==
    IF filenames = <<>> THEN Null
    ELSE LET filename == Head(filenames)
             read == readMarkdownlintConfig(fs, dir, filename)
             next == findHighestPrecedenceConfigFileInDir(fs, dir, Tail(filenames))
         IN IF read.status # "ok" THEN next
            ELSE IF filename = "package.json"
                 THEN IF Has(read.config, "markdownlint-cli2")
                      THEN [dir |-> dir, filename |-> filename,
                            config |-> read.config["markdownlint-cli2"]]
                      ELSE next
                 ELSE [dir |-> dir, filename |-> filename, config |-> read.config]

\* the directories from the document's up to the workspace root
RECURSIVE directoriesToSearch(_, _)
directoriesToSearch(workspaceRoot, currentDir) ==
    IF ~isSubdirectory(workspaceRoot, currentDir) THEN <<>>
    ELSE IF currentDir = workspaceRoot \/ dirname(currentDir) = currentDir
         THEN <<currentDir>>
         ELSE <<currentDir>> \o directoriesToSearch(workspaceRoot, dirname(currentDir))

\* the sources found, in the order of the directories searched
RECURSIVE foundConfigs(_, _, _)
foundConfigs(fs, workspaceRoot, dirs) ==
    IF dirs = <<>> THEN <<>>
    ELSE LET dir == Head(dirs)
             filenames == IF dir = workspaceRoot THEN ALL_CONFIG_FILENAMES
                          ELSE ALL_CONFIG_FILENAMES_EXCEPT_PACKAGE_JSON
             found == findHighestPrecedenceConfigFileInDir(fs, dir, filenames)
         IN (IF found = Null THEN <<>> ELSE <<found>>)
            \o foundConfigs(fs, workspaceRoot, Tail(dirs))

isMarkdownlintConfig(filename) ==
    \/ filename \in SeqRange(MARKDOWNLINT_CONFIG_FILENAMES)
    \/ filename \in SeqRange(MARKDOWNLINT_RC_CONFIG_FILENAMES)

\* a round in which a plain source replaces the merged result, not only its
\* config
applyConfig_replacesAll(mergedOptions, source) ==
    IF isMarkdownlintConfig(source.filename)
    THEN [config |-> source.config]
    ELSE mergeOptions(mergedOptions, source.config)

\* one round of the merge loop
applyConfig(mergedOptions, source) ==
    IF isMarkdownlintConfig(source.filename)
    THEN [config |-> source.config] @@ mergedOptions
    ELSE mergeOptions(mergedOptions, source.config)

\* a plain file of a directory is merged into the config of those further out
RECURSIVE applyConfigs_inheritsPlain(_, _)
applyConfigs_inheritsPlain(mergedOptions, found) ==
    IF found = <<>> THEN mergedOptions
    ELSE LET source == found[Len(found)]
             merged == mergeOptions(mergedOptions,
                                    IF isMarkdownlintConfig(source.filename)
                                    THEN [config |-> source.config]
                                    ELSE source.config)
         IN applyConfigs_inheritsPlain(merged, SubSeq(found, 1, Len(found) - 1))

\* the merge loop over foundConfigs.reverse(): the outermost source first
RECURSIVE applyConfigs(_, _)
applyConfigs(mergedOptions, found) ==
    IF found = <<>> THEN mergedOptions
    ELSE applyConfigs(applyConfig(mergedOptions, found[Len(found)]),
                      SubSeq(found, 1, Len(found) - 1))

DeepUri == "file:///w/docs/sub/c.md"

\* fileURLToPath of the uris of the model
fileURLToPath(fileUri) ==
    IF fileUri = UriA THEN <<"w", "docs", "a.md">>
    ELSE IF fileUri = DeepUri THEN <<"w", "docs", "sub", "c.md">>
    ELSE <<"w", "b.md">>

\* the options loadConfig resolves to, and the directories it searched
loadConfig(fs, fileUri, workspaceRoot) ==
    IF ~startsWithFile(fileUri) THEN [options |-> Null, searched |-> <<>>]
    ELSE LET startDir == dirname(fileURLToPath(fileUri))
             dirs == directoriesToSearch(workspaceRoot, startDir)
             found == foundConfigs(fs, workspaceRoot, dirs)
             mergedOptions == applyConfigs(EmptyObject, found)
         IN [options |-> IF found = <<>> \/ DOMAIN mergedOptions = {} THEN Null
                         ELSE mergedOptions,
             searched |-> dirs]

loadConfigCalled(fs, fileUri, workspaceRoot) ==
    /\ call' = [op |-> "loadConfig", fs |-> fs, fileUri |-> fileUri,
                workspaceRoot |-> workspaceRoot]
    /\ result' = loadConfig(fs, fileUri, workspaceRoot)
    /\ UNCHANGED serverVars

(***************************************************************************)
(* The configuration files that the resolution is tried on: those of the   *)
(* workspace folder /w, of its directory /w/docs and of /w/docs/sub.       *)
(***************************************************************************)
RootDir == <<"w">>
DocsDir == <<"w", "docs">>
SubDir == <<"w", "docs", "sub">>
OtherRoot == <<"x">>

Cli2Name == ".markdownlint-cli2.jsonc"
PlainName == ".markdownlint.json"
RcName == ".markdownlintrc"
PackageName == "package.json"

Cli2Bodies == {[config |-> [MD041 |-> "false"]], [fix |-> "true"]}
PlainBodies == {[default |-> "true", MD013 |-> "80"], [MD013 |-> "false"]}
RcBody == [MD009 |-> "false"]
PackageWithoutKey == [name |-> "pkg"]
PackageWithKey ==
    [name |-> "pkg"] @@ ("markdownlint-cli2" :> [config |-> [MD010 |-> "false"]])

FileStates(bodies) == {Absent, Unreadable} \cup {Parsed(body) : body \in bodies}

DirFiles(cli2, plain, rc, package) ==
    (Cli2Name :> cli2) @@ (PlainName :> plain) @@ (RcName :> rc) @@ (PackageName :> package)

RootContents ==
    {DirFiles(cli2, plain, rc, package) :
        cli2 \in FileStates(Cli2Bodies), plain \in FileStates(PlainBodies),
        rc \in {Absent, Parsed(RcBody)},
        package \in {Absent, Parsed(PackageWithoutKey), Parsed(PackageWithKey)}}

DocsContents ==
    {DirFiles(cli2, plain, rc, package) :
        cli2 \in FileStates(Cli2Bodies), plain \in FileStates(PlainBodies),
        rc \in {Absent, Parsed(RcBody)},
        package \in {Absent, Parsed(PackageWithKey)}}

SubContents ==
    {DirFiles(cli2, plain, rc, Absent) :
        cli2 \in {Absent, Parsed([fix |-> "true"])},
        plain \in {Absent, Parsed([MD013 |-> "false"])},
        rc \in {Absent, Parsed(RcBody)}}

NoFiles == DirFiles(Absent, Absent, Absent, Absent)

FileSystem(root, docs, sub) == (RootDir :> root) @@ (DocsDir :> docs) @@ (SubDir :> sub)

LoadConfigTargets ==
    {[fileUri |-> UriA, workspaceRoot |-> RootDir],
     [fileUri |-> UriA, workspaceRoot |-> DocsDir],
     [fileUri |-> UriA, workspaceRoot |-> OtherRoot],
     [fileUri |-> UriB, workspaceRoot |-> RootDir],
     [fileUri |-> NonFileUri, workspaceRoot |-> RootDir]}

\* one resolution: for a.md, b.md or the untitled document with nothing below
\* /w/docs, or for c.md with files in /w/docs/sub
NextLoadConfig ==
    /\ call = NoCall
    /\ \/ \E root \in RootContents, docs \in DocsContents, target \in LoadConfigTargets :
             loadConfigCalled(FileSystem(root, docs, NoFiles),
                              target.fileUri, target.workspaceRoot)
       \/ \E root \in RootContents, docs \in DocsContents, sub \in SubContents \ {NoFiles} :
             loadConfigCalled(FileSystem(root, docs, sub), DeepUri, RootDir)

SpecLoadConfig == Init /\ [][NextLoadConfig]_vars

\* the file of that name in the i-th directory searched was read and parsed
ParsedIn(i, filename) ==
    readMarkdownlintConfig(call.fs, result.searched[i], filename).status = "ok"

\* the directories searched, counted from the document's, with a plain file
PlainDirs == {i \in 1..Len(result.searched) : ParsedIn(i, PlainName)}

ClosestPlain == CHOOSE i \in PlainDirs : \A j \in PlainDirs : i <= j

\* the resolved config sub-object is the body of the closest plain file
ConfigIsClosestPlainBody ==
    /\ result.options # Null
    /\ Has(result.options, "config")
    /\ result.options.config
         = readMarkdownlintConfig(call.fs, result.searched[ClosestPlain], PlainName).config

\* C16: with plain files in several directories of the chain and no
\* CLI-tool-style source deeper, the resolved config is the body of the plain
\* file closest to the document, with no key of a plain file further out
C16_ClosestPlainFileIsTheConfig ==
    (/\ call.op = "loadConfig"
     /\ Cardinality(PlainDirs) >= 2
     /\ \A i \in 1..(ClosestPlain - 1) : ~ParsedIn(i, Cli2Name))
    => ConfigIsClosestPlainBody

\* C16, amended: the same when no CLI-tool-style source lies deeper or in the
\* directory of the closest plain file and no RC-style source lies deeper
C16_ClosestPlainSourceIsTheConfig ==
    (/\ call.op = "loadConfig"
     /\ Cardinality(PlainDirs) >= 2
     /\ \A i \in 1..ClosestPlain : ~ParsedIn(i, Cli2Name)
     /\ \A i \in 1..(ClosestPlain - 1) : ~ParsedIn(i, RcName))
    => ConfigIsClosestPlainBody

\* the plain files of /w and /w/docs differ and the one of /w/docs is the config
C16_Witness ==
    /\ call.op = "loadConfig"
    /\ call.fileUri = UriA
    /\ call.workspaceRoot = RootDir
    /\ call.fs[RootDir][PlainName] = Parsed([default |-> "true", MD013 |-> "80"])
    /\ call.fs[DocsDir][PlainName] = Parsed([MD013 |-> "false"])
    /\ call.fs[DocsDir][Cli2Name] = Absent
    /\ result.options.config = [MD013 |-> "false"]

\* the candidates of the i-th directory searched
Candidates(i) ==
    IF result.searched[i] = call.workspaceRoot THEN ALL_CONFIG_FILENAMES
    ELSE ALL_CONFIG_FILENAMES_EXCEPT_PACKAGE_JSON

\* the candidate at position k is there, parses and, if it is package.json,
\* has the key of the tool
Usable(i, k) ==
    LET read == readMarkdownlintConfig(call.fs, result.searched[i], Candidates(i)[k])
    IN /\ read.status = "ok"
       /\ Candidates(i)[k] = PackageName => Has(read.config, "markdownlint-cli2")

\* the sources that were merged
Sources == foundConfigs(call.fs, call.workspaceRoot, result.searched)

\* the file system with another file at dir/filename
WithFile(fs, dir, filename, file) ==
    [fs EXCEPT ![dir] = [@ EXCEPT ![filename] = file]]

\* C17: a directory of the chain contributes at most one source, its first
\* candidate in the order of the names that exists and parses (package.json
\* only in the workspace root); next to a CLI-tool-style file that is used, a
\* plain file has no effect
C17_FirstCandidatePerDirectory ==
    call.op = "loadConfig" =>
        LET sources == Sources
        IN /\ \A i \in 1..Len(result.searched) :
                 LET ofDir == {n \in 1..Len(sources) : sources[n].dir = result.searched[i]}
                     usable == {k \in 1..Len(Candidates(i)) : Usable(i, k)}
                 IN /\ Cardinality(ofDir) <= 1
                    /\ (ofDir = {}) = (usable = {})
                    /\ \A n \in ofDir : \A k \in usable :
                          (\A l \in usable : k <= l)
                          => sources[n].filename = Candidates(i)[k]
           /\ \A n \in 1..Len(sources) :
                 sources[n].filename = PackageName => sources[n].dir = call.workspaceRoot
           /\ \A i \in 1..Len(result.searched) :
                 ParsedIn(i, Cli2Name) =>
                    \A plain \in FileStates(PlainBodies) :
                       loadConfig(WithFile(call.fs, result.searched[i], PlainName, plain),
                                  call.fileUri, call.workspaceRoot) = result

\* /w/docs holds a CLI-tool-style file and a plain file, and the resolved
\* config is the one of the CLI-tool-style file
C17_Witness ==
    /\ call.op = "loadConfig"
    /\ call.fileUri = UriA
    /\ call.workspaceRoot = DocsDir
    /\ call.fs[DocsDir][Cli2Name] = Parsed([config |-> [MD041 |-> "false"]])
    /\ call.fs[DocsDir][PlainName] = Parsed([default |-> "true", MD013 |-> "80"])
    /\ result.options = [config |-> [MD041 |-> "false"]]

UntitledFileSystems ==
    {FileSystem(root, NoFiles, NoFiles) :
        root \in {NoFiles,
                  DirFiles(Absent, Parsed([MD013 |-> "false"]), Absent, Absent),
                  DirFiles(Parsed([config |-> [MD041 |-> "false"]]), Absent, Absent,
                           Parsed(PackageWithKey))}}

NextUntitled ==
    \/ DocumentEvents({NonFileUri}, {"markdown"}, ConfigMaxVersion, ConfigMaxOpens)
    \/ Continuations
    \/ ConfigFileEvents
    \/ /\ call = NoCall
       /\ \E fs \in UntitledFileSystems : loadConfigCalled(fs, NonFileUri, RootDir)

SpecUntitled == Init /\ [][NextUntitled]_vars

MaxLineLength == 3

PositionEncodingKinds == {"utf-8", "utf-16", "utf-32"}

isHighSurrogate(unit) == unit >= 55296 /\ unit <= 56319
isLowSurrogate(unit) == unit >= 56320 /\ unit <= 57343

RECURSIVE codePoints(_)
\* for (const char of text): a surrogate pair is one char of length 2, every
\* other code unit, a lone surrogate too, is a char of length 1
codePoints(text) ==
    IF text = <<>> THEN <<>>
    ELSE IF Len(text) >= 2 /\ isHighSurrogate(text[1]) /\ isLowSurrogate(text[2])
    THEN <<SubSeq(text, 1, 2)>> \o codePoints(SubSeq(text, 3, Len(text)))
    ELSE <<<<text[1]>>>> \o codePoints(Tail(text))

\* Buffer.from(char, "utf8").length of one char; a lone surrogate is encoded
\* as U+FFFD, three bytes
utf8Length(char) ==
    IF Len(char) = 2 THEN 4
    ELSE IF char[1] < 128 THEN 1
    ELSE IF char[1] < 2048 THEN 2
    ELSE 3

RECURSIVE utf8LengthOfAll(_)
utf8LengthOfAll(chars) ==
    IF chars = <<>> THEN 0 ELSE utf8Length(Head(chars)) + utf8LengthOfAll(Tail(chars))

\* Buffer.from(text, "utf8").length
bufferUtf8Length(text) == utf8LengthOfAll(codePoints(text))

\* text.slice(0, index) for index > 0
slice(text, index) == SubSeq(text, 1, Min(index, Len(text)))

utf16IndexToUtf8(text, index) ==
    IF index <= 0 THEN 0 ELSE bufferUtf8Length(slice(text, index))

RECURSIVE utf8Loop(_, _, _, _)
\* the loop of #utf8IndexToUtf16 over the chars that are left
utf8Loop(chars, index, utf8Count, utf16Index) ==
    IF chars = <<>> THEN utf16Index
    ELSE LET charSize == utf8Length(Head(chars))
         IN IF utf8Count + charSize > index THEN utf16Index
            ELSE utf8Loop(Tail(chars), index, utf8Count + charSize,
                          utf16Index + Len(Head(chars)))

utf8IndexToUtf16(text, index) ==
    IF index <= 0 THEN 0
    ELSE Min(utf8Loop(codePoints(text), index, 0, 0), Len(text))

RECURSIVE utf16Loop(_, _, _, _)
\* the loop of #utf16IndexToUtf32 over the chars that are left
utf16Loop(chars, index, count, seen) ==
    IF chars = <<>> THEN count
    ELSE IF seen + Len(Head(chars)) > index THEN count
    ELSE utf16Loop(Tail(chars), index, count + 1, seen + Len(Head(chars)))

\* offsets that are taken for code points already
utf16IndexToUtf32_countsUnits(text, index) == IF index <= 0 THEN 0 ELSE index

utf16IndexToUtf32(text, index) ==
    IF index <= 0 THEN 0 ELSE utf16Loop(codePoints(text), index, 0, 0)

RECURSIVE utf32Loop(_, _, _, _)
\* the loop of #utf32IndexToUtf16 over the chars that are left
utf32Loop(chars, index, count, utf16Index) ==
    IF chars = <<>> THEN utf16Index
    ELSE IF count >= index THEN utf16Index
    ELSE utf32Loop(Tail(chars), index, count + 1, utf16Index + Len(Head(chars)))

utf32IndexToUtf16(text, index) ==
    IF index <= 0 THEN 0
    ELSE Min(utf32Loop(codePoints(text), index, 0, 0), Len(text))

convertPositionToUtf16(encoding, position, document) ==
    IF encoding = "utf-16" THEN position
    ELSE LET lineText == getLineText(document, position.line)
         IN IF encoding = "utf-8"
            THEN [line |-> position.line,
                  character |-> utf8IndexToUtf16(lineText, position.character)]
            ELSE [line |-> position.line,
                  character |-> utf32IndexToUtf16(lineText, position.character)]

convertPositionFromUtf16(encoding, position, document) ==
    IF encoding = "utf-16" THEN position
    ELSE LET lineText == getLineText(document, position.line)
         IN IF encoding = "utf-8"
            THEN [line |-> position.line,
                  character |-> utf16IndexToUtf8(lineText, position.character)]
            ELSE [line |-> position.line,
                  character |-> utf16IndexToUtf32(lineText, position.character)]

\* an internal position goes out to the client and comes back
positionSentAndReceived(encoding, position, document) ==
    /\ call' = [op |-> "convertPosition", positionEncoding |-> encoding,
                position |-> position, document |-> document]
    /\ LET wire == convertPositionFromUtf16(encoding, position, document)
       IN result' = [wire |-> wire,
                     back |-> convertPositionToUtf16(encoding, wire, document)]
    /\ UNCHANGED serverVars

(***************************************************************************)
(* The lines the conversions are tried on: code units of one, two and      *)
(* three UTF-8 bytes ("a", U+00E9, U+20AC) and the two surrogates of       *)
(* U+1F600, in every order, so that pairs and lone surrogates occur.       *)
(***************************************************************************)
CodeUnits == {97, 233, 8364, 55357, 56832}

LineTexts == UNION {[1..n -> CodeUnits] : n \in 0..MaxLineLength}

NextEncoding ==
    /\ call = NoCall
    /\ \E encoding \in PositionEncodingKinds, lineText \in LineTexts :
          \E character \in 0..Len(lineText) :
             positionSentAndReceived(encoding,
                                     [line |-> 0, character |-> character],
                                     [lines |-> <<lineText>>])

SpecEncoding == Init /\ [][NextEncoding]_vars

\* the offset does not split a surrogate pair of the line
OnCodePointBoundary(lineText, character) ==
    ~(/\ character > 0
      /\ character < Len(lineText)
      /\ isHighSurrogate(lineText[character])
      /\ isLowSurrogate(lineText[character + 1]))

(***************************************************************************)
(* C20: an internal offset of a line that lies between 0 and the length of *)
(* the line on a code-point boundary comes back unchanged from the         *)
(* translation to the wire encoding and back, for UTF-8 and UTF-32, and    *)
(* under UTF-16 the wire offset is the internal offset.                    *)
(***************************************************************************)
C20_OffsetRoundTrip ==
    (/\ call.op = "convertPosition"
     /\ OnCodePointBoundary(call.document.lines[1], call.position.character))
    => /\ result.back = call.position
       /\ call.positionEncoding = "utf-16" => result.wire = call.position

\* the offset after a surrogate pair and a two-byte character, which is 3 in
\* UTF-16, 6 in UTF-8 and 2 in UTF-32
C20_Witness ==
    /\ call.op = "convertPosition"
    /\ call.document.lines[1] = <<55357, 56832, 233>>
    /\ call.position.character = 3
    /\ \/ call.positionEncoding = "utf-8" /\ result.wire.character = 6
       \/ call.positionEncoding = "utf-32" /\ result.wire.character = 2
    /\ result.back.character = 3

(***************************************************************************)
(* Initialization: the client's initialize request is the first thing the  *)
(* server handles, and the client sends it once; a document is opened,     *)
(* edited and validated afterwards.                                        *)
(***************************************************************************)
MaxEncodings == 2

\* capabilities.general of the client: absent, or with a list of encodings
ClientGenerals ==
    {Null} \cup {[positionEncodings |-> advertised] :
                    advertised \in SeqsUpTo(PositionEncodingKinds, MaxEncodings)}

InitializeParams(generals, options) ==
    {[general |-> general, workspaceFolders |-> <<FolderW>>,
      rootPath |-> NoPath, initializationOptions |-> initializationOption] :
        general \in generals, initializationOption \in options}

NextInitialize ==
    \/ /\ call = NoCall
       /\ \E params \in InitializeParams(ClientGenerals, {Null}) :
             onInitialize(params)
    \/ /\ call # NoCall
       /\ \/ DocumentEvents({UriA}, {"markdown"}, ConfigMaxVersion, ConfigMaxOpens)
          \/ Continuations

SpecInitialize == Constructed /\ [][NextInitialize]_vars

\* the client's list has the encoding in it
Advertises(clientPositionEncodings, encoding) ==
    \E i \in 1..Len(clientPositionEncodings) : clientPositionEncodings[i] = encoding

(***************************************************************************)
(* C21: from the initialize request on, the server's position encoding is  *)
(* UTF-16 if the client's list contains UTF-16 at any position or the      *)
(* client sent no list (or an empty one), and the first encoding of the    *)
(* client's list otherwise; it is the encoding that the capabilities of    *)
(* the answer name, and no later step changes it.                          *)
(***************************************************************************)
C21_EncodingNegotiatedOnce ==
    call.op = "initialize" =>
        LET general == call.params.general
        IN /\ positionEncoding =
                 IF general = Null \/ general.positionEncodings = <<>>
                    \/ Advertises(general.positionEncodings, "utf-16")
                 THEN "utf-16"
                 ELSE general.positionEncodings[1]
           /\ result.capabilities.positionEncoding = positionEncoding

\* the client listed UTF-8 before UTF-16, and a document has been validated
\* and its diagnostics published since
C21_Witness ==
    /\ call.op = "initialize"
    /\ call.params.general # Null
    /\ call.params.general.positionEncodings = <<"utf-8", "utf-16">>
    /\ positionEncoding = "utf-16"
    /\ lastPublished[UriA].version = ConfigMaxVersion

(***************************************************************************)
(* The options of an analysis call.  The configuration files of the model  *)
(* set options that the client sets too, so that it shows which of them    *)
(* the analysis engine gets.                                               *)
(***************************************************************************)
\* what the configuration files resolved to, as an options object
documentOptionsAt(options) ==
    IF options = EmptyOptions THEN EmptyObject
    ELSE [frontMatter |-> "file", noInlineConfig |-> "false",
          config |-> [default |-> "false", MD013 |-> "80", MD041 |-> "false"]]

\* a merge in which the configuration files have the last word
lintOptions_filesLast(documentOptions, serverSettings, uri) ==
    Spread(mergeOptions(serverSettings, documentOptions),
           [strings |-> uri, handleRuleFailures |-> "true"])

\* the options validateDocument passes to lint()
lintOptions(documentOptions, serverSettings, uri) ==
    Spread(mergeOptions(documentOptions, serverSettings),
           [strings |-> uri, handleRuleFailures |-> "true"])

\* initializationOptions of the client: absent, or an object
InitializationOptions ==
    {Null,
     [noInlineConfig |-> "true", validationDelay |-> "50"],
     [frontMatter |-> "initialization", handleRuleFailures |-> "false",
      config |-> [MD013 |-> "100"]]}

NextInitializationOptions ==
    \/ /\ call = NoCall
       /\ \E params \in InitializeParams({Null}, InitializationOptions) :
             onInitialize(params)
    \/ /\ call # NoCall
       /\ \/ DocumentEvents({UriA}, {"markdown"}, ConfigMaxVersion, ConfigMaxOpens)
          \/ Continuations
          \/ SettingsEvents

SpecInitializationOptions == Constructed /\ [][NextInitializationOptions]_vars

\* the executions of validateDocument that have called the analysis engine
LintCalls == {run \in BagToSet(runs) : run.pc = "lint"}

OptionsOfLint(run) == lintOptions(documentOptionsAt(run.options), run.settings, run.uri)

\* the rules of the config object that the client's initializationOptions set
InitializationRules ==
    IF Has(initializationOptions, "config") THEN DOMAIN initializationOptions.config
    ELSE {}

\* a workspace configuration sets the option, or the rule, to the value
WorkspaceSets(key, value) ==
    \E clientSettings \in ClientSettings \ {Null} :
        Has(clientSettings, key) /\ clientSettings[key] = value

WorkspaceSetsRule(rule, value) ==
    \E clientSettings \in ClientSettings \ {Null} :
        /\ Has(clientSettings, "config")
        /\ Has(clientSettings.config, rule)
        /\ clientSettings.config[rule] = value

(***************************************************************************)
(* C22 as stated: every option of the client's initializationOptions other *)
(* than validationDelay is among the options of every analysis call with   *)
(* the value the client gave it (for the config object: every rule of it), *)
(* whatever the configuration files say, and validationDelay is not among  *)
(* them.                                                                   *)
(***************************************************************************)
C22_InitializationOptionsInEveryCall ==
    \A run \in LintCalls :
        LET options == OptionsOfLint(run)
        IN /\ \A key \in DOMAIN initializationOptions \ {"validationDelay", "config"} :
                 Has(options, key) /\ options[key] = initializationOptions[key]
           /\ \A rule \in InitializationRules :
                 /\ Has(options, "config")
                 /\ Has(options.config, rule)
                 /\ options.config[rule] = initializationOptions.config[rule]
           /\ ~Has(options, "validationDelay")

(***************************************************************************)
(* C22 amended: every option of the client's initializationOptions other   *)
(* than validationDelay, strings and handleRuleFailures is among the       *)
(* options of every analysis call, with the value the client gave it in    *)
(* initializationOptions or, for an option that a workspace configuration  *)
(* sets too, the value of the workspace configuration; never with the      *)
(* value of the configuration files.  validationDelay is not among them.   *)
(***************************************************************************)
C22_ClientOptionsBeforeFileOptions ==
    \A run \in LintCalls :
        LET options == OptionsOfLint(run)
        IN /\ \A key \in DOMAIN initializationOptions
                           \ {"validationDelay", "config", "strings", "handleRuleFailures"} :
                 /\ Has(options, key)
                 /\ \/ options[key] = initializationOptions[key]
                    \/ WorkspaceSets(key, options[key])
           /\ \A rule \in InitializationRules :
                 /\ Has(options, "config")
                 /\ Has(options.config, rule)
                 /\ \/ options.config[rule] = initializationOptions.config[rule]
                    \/ WorkspaceSetsRule(rule, options.config[rule])
           /\ ~Has(options, "validationDelay")

\* the client set noInlineConfig and validationDelay when it initialized, the
\* workspace configuration has been fetched since, and an analysis is running
\* with the client's noInlineConfig although the files set it too
C22_Witness ==
    /\ Has(initializationOptions, "validationDelay")
    /\ Has(settings, "frontMatter")
    /\ \E run \in LintCalls :
          /\ OptionsOfLint(run).noInlineConfig = "true"
          /\ OptionsOfLint(run).frontMatter = "workspace"
          /\ documentOptionsAt(run.options).noInlineConfig = "false"

(***************************************************************************)
(* C23: when the analysis engine returns a result to a run for version v   *)
(* of a uri, the step publishes the diagnostics stamped v and stores their *)
(* fix pairs if the latest-version stamp of the uri is v, and otherwise    *)
(* the result is discarded: nothing is sent, and neither the last          *)
(* publication nor the stored fix list of the uri changes.                 *)
(***************************************************************************)
C23_PublishedOnlyIfStampIsCurrent ==
    [][\A run \in BagToSet(runs), issues \in LintResults :
          lintReturns(run, issues) =>
              IF latestVersionByUri[run.uri] = run.currentVersion
              THEN /\ sent' = run.uri
                   /\ lastPublished'[run.uri].version = run.currentVersion
                   /\ lastPublished'[run.uri].diagnostics = issuesToDiagnostics(issues)
                   /\ documentFixes'[run.uri] =
                         [present |-> TRUE, pairs |-> issuesToFixPairs(issues)]
              ELSE /\ sent' = NoUri
                   /\ lastPublished' = lastPublished
                   /\ documentFixes' = documentFixes
      ]_vars

\* the document was closed while its only run was loading the configuration;
\* the run has put it into the cache since and has ended with its result
\* discarded, the empty publication of the close being the last one
C23_Witness ==
    /\ ~IsOpen(UriA)
    /\ opens[UriA] = 1
    /\ runs = EmptyBag
    /\ configCache # <<>>
    /\ sent = NoUri
    /\ lastPublished[UriA].version = 0
    /\ documentFixes[UriA] = NoFixes

(***************************************************************************)
(* C24: a step that enqueues a document of a uri (a save, or the debounce  *)
(* timer of an open document firing) while a run is in flight for the uri  *)
(* starts no run and leaves exactly that document as the queued snapshot   *)
(* of the uri; when no run is in flight for the uri, the step starts a run *)
(* for the document (if it is a markdown document) and queues nothing.     *)
(***************************************************************************)
\* the step hands the document to #enqueueValidation
Enqueues(uri, document) ==
    \/ onDidSaveTextDocument(uri) /\ document = documents[uri]
    \/ validationTimeoutFires(uri) /\ IsOpen(uri) /\ document = validationTimeouts[uri]

\* the step starts an execution of validateDocument on the document
Starts(document) ==
    \E run \in BagToSet(runs') :
        /\ run.document = document
        /\ run.currentVersion = document.version
        /\ CopiesIn(run, runs') = CopiesIn(run, runs) + 1

EnqueuedDocuments(uri) == {documents[uri], validationTimeouts[uri]} \ {NoDoc}

C24_EnqueueCoalesces ==
    [][\A uri \in URIs : \A document \in EnqueuedDocuments(uri) :
          Enqueues(uri, document) =>
              IF RunsOfUri(runs, uri) > 0
              THEN /\ runs' = runs
                   /\ queuedValidations'[uri] = document
              ELSE /\ queuedValidations'[uri] = NoDoc
                   /\ document.languageId = "markdown" =>
                         Starts(document) /\ RunsOfUri(runs', uri) = 1
      ]_vars

\* the same, where "in flight" is the marker of #validationInFlight
C24_EnqueueCoalescesOnMarker ==
    [][\A uri \in URIs : \A document \in EnqueuedDocuments(uri) :
          Enqueues(uri, document) =>
              IF uri \in validationInFlight
              THEN /\ runs' = runs
                   /\ queuedValidations'[uri] = document
              ELSE /\ queuedValidations'[uri] = NoDoc
                   /\ document.languageId = "markdown" => Starts(document)
      ]_vars

(***************************************************************************)
(* C25: when a run of a uri ends (its result published, discarded as       *)
(* stale, or the engine failed) while a snapshot is queued for the uri,    *)
(* the step removes the queue entry and starts a run for that snapshot;    *)
(* and a snapshot is queued only while a run of the uri is in flight, so   *)
(* that the snapshot of a document that stays open is run once that run    *)
(* ends.                                                                   *)
(***************************************************************************)
\* the step is the end of the run
Ends(run) ==
    \/ lintThrows(run)
    \/ \E issues \in LintResults : lintReturns(run, issues)

\* the step that ends the run starts an execution of validateDocument on the
\* document
StartsBehind(run, document) ==
    \E next \in BagToSet(runs') :
        /\ next.document = document
        /\ next.currentVersion = document.version
        /\ CopiesIn(next, runs') = CopiesIn(next, runs (-) SetToBag({run})) + 1

C25_QueuedSnapshotRunsNext ==
    /\ [][\A run \in BagToSet(runs) :
             (Ends(run) /\ queuedValidations[run.uri] # NoDoc) =>
                 /\ queuedValidations'[run.uri] = NoDoc
                 /\ StartsBehind(run, queuedValidations[run.uri])
         ]_vars
    /\ [](\A uri \in URIs :
             queuedValidations[uri] # NoDoc =>
                 /\ IsOpen(uri)
                 /\ RunsOfUri(runs, uri) > 0)

\* the diagnostics of version 1 have just been published, and the same step
\* has started the run of the snapshot that was queued behind, for version 2
C25_Witness ==
    /\ opens[UriA] = 1
    /\ PublishedVersioned(UriA)
    /\ lastPublished[UriA].version = 1
    /\ queuedValidations[UriA] = NoDoc
    /\ UriA \in validationInFlight
    /\ \E run \in BagToSet(runs) : run.uri = UriA /\ run.currentVersion = 2

(***************************************************************************)
(* C26: a run that was started before its document was closed publishes no *)
(* diagnostics and stores no fixes for the uri once the document has been  *)
(* opened again: whenever a step publishes diagnostics stamped with a      *)
(* version, or leaves a stored fix list, for a uri whose document is open, *)
(* the run they come from analysed the document of this open session.      *)
(***************************************************************************)
C26_NoPublicationFromEarlierSession ==
    \A uri \in URIs :
        (PublishedVersioned(uri) /\ IsOpen(uri)) =>
            lastPublished[uri].inc = documents[uri].inc

\* the same for the results of the engine only: the publications that come
\* with a stored fix list
C26_NoResultFromEarlierSession ==
    \A uri \in URIs :
        (PublishedVersioned(uri) /\ IsOpen(uri) /\ documentFixes[uri].present) =>
            lastPublished[uri].inc = documents[uri].inc

(***************************************************************************)
(* C27: after an invalidation event has cleared the config cache, the      *)
(* cache never contains options whose file reads began before the clear.   *)
(* For the watched-files event: once the config-change timer has fired,    *)
(* no entry of the cache holds options older than the notified change.     *)
(***************************************************************************)
C27_NoOptionsFromBeforeTheClear ==
    ~configChangeTimeout =>
        \A i \in 1..Len(configCache) :
            configCache[i].options # EmptyOptions =>
                configCache[i].options >= notifiedEpoch

(***************************************************************************)
(* C28: when the analysis engine throws for a run whose version is no      *)
(* longer the latest stamped for its uri, nothing is published for the run *)
(* and the stored fix list of the uri is left unchanged.                   *)
(***************************************************************************)
C28_StaleFailurePublishesNothing ==
    [][\A run \in BagToSet(runs) :
          (lintThrows(run) /\ isStale(latestVersionByUri, run)) =>
              /\ sent' = NoUri
              /\ lastPublished' = lastPublished
              /\ documentFixes' = documentFixes
      ]_vars

OpenOrChange(uri) ==
    \/ \E languageId \in LanguageIds : onDidOpenTextDocument(uri, 1, languageId)
    \/ onDidChangeTextDocument(uri)

\* the step only resets the timer of the uri: the timer is pending with the
\* registry's document, and nothing was handed to #enqueueValidation
OnlyResetsTimer(uri) ==
    /\ validationTimeouts'[uri] = documents'[uri]
    /\ validationTimeouts'[uri] # NoDoc
    /\ BagCardinality(runs') = BagCardinality(runs)
    /\ latestVersionByUri' = latestVersionByUri
    /\ validationInFlight' = validationInFlight
    /\ (queuedValidations'[uri] = NoDoc) = (queuedValidations[uri] = NoDoc)

C30_EventsOnlyResetTimer ==
    [][\A uri \in URIs :
          (OpenOrChange(uri) \/ onDidSaveTextDocument(uri)) => OnlyResetsTimer(uri)
      ]_vars

\* as the code has it: open and change reset the timer and enqueue when it
\* fires; a save cancels the pending timer and enqueues at once
C30_SaveEnqueuesAtOnce ==
    [][\A uri \in URIs :
          /\ OpenOrChange(uri) => OnlyResetsTimer(uri)
          /\ onDidSaveTextDocument(uri) =>
                /\ validationTimeouts'[uri] = NoDoc
                /\ IF uri \in validationInFlight
                   THEN queuedValidations'[uri] = documents[uri]
                   ELSE /\ queuedValidations'[uri] = NoDoc
                        /\ documents[uri].languageId = "markdown" =>
                              Starts(documents[uri])
          /\ (validationTimeoutFires(uri) /\ IsOpen(uri)) =>
                /\ validationTimeouts'[uri] = NoDoc
                /\ IF uri \in validationInFlight
                   THEN queuedValidations'[uri] = validationTimeouts[uri]
                   ELSE /\ queuedValidations'[uri] = NoDoc
                        /\ validationTimeouts[uri].languageId = "markdown" =>
                              Starts(validationTimeouts[uri])
      ]_vars

\* a.md was edited to version 2 and saved while the timer of the edit was
\* pending: the save has cancelled the timer and started the run of version 2
C30_Witness ==
    /\ IsOpen(UriA)
    /\ documents[UriA].version = 2
    /\ validationTimeouts[UriA] = NoDoc
    /\ enqueued[UriA]
    /\ latestVersionByUri[UriA] = 2
    /\ lastPublished[UriA] = NoPub
    /\ RunsOfUri(runs, UriA) = 1
    /\ \E run \in BagToSet(runs) : run.currentVersion = 2 /\ run.pc = "loadConfig"

(***************************************************************************)
(* C31: whenever a debounce timer is pending for a uri, the document the   *)
(* timer captured is the document stored in the registry for that uri, so  *)
(* a firing timer hands the latest version to the queue: the run it starts *)
(* reads and stamps the registry's version, and the snapshot it queues is  *)
(* the registry's document.                                                *)
(***************************************************************************)
C31_TimerCapturesRegistryDocument ==
    /\ [](\A uri \in DocumentUris :
             validationTimeouts[uri] # NoDoc =>
                 /\ IsOpen(uri)
                 /\ validationTimeouts[uri].version = documents[uri].version
                 /\ validationTimeouts[uri].inc = documents[uri].inc)
    /\ [][\A uri \in DocumentUris :
             validationTimeoutFires(uri) =>
                 IF uri \in validationInFlight
                 THEN queuedValidations'[uri] = documents[uri]
                 ELSE documents[uri].languageId = "markdown" =>
                          /\ Starts(documents[uri])
                          /\ latestVersionByUri'[uri] = documents[uri].version
         ]_vars

\* the timer of version 1 was pending when a.md was edited: the pending timer
\* is the one of version 2, and version 1 was never enqueued
C31_Witness ==
    /\ IsOpen(UriA)
    /\ documents[UriA].version = 2
    /\ validationTimeouts[UriA] = documents[UriA]
    /\ burstSkipped[UriA] = {1}
    /\ runs = EmptyBag
    /\ latestVersionByUri[UriA] = NoVersion

(***************************************************************************)
(* C32: while a uri is closed (from the handling of its close until it is  *)
(* opened again) none of the per-document stores has an entry for it: not  *)
(* the fix map, the latest-version map, the queued-validation map, the     *)
(* in-flight set, the debounce-timer map, nor the config cache, also when  *)
(* a run of the document was in flight at the close and ends afterwards.   *)
(***************************************************************************)
C32_ClosedDocumentHasNoEntries ==
    \A uri \in URIs :
        ~IsOpen(uri) =>
            /\ documentFixes[uri] = NoFixes
            /\ latestVersionByUri[uri] = NoVersion
            /\ queuedValidations[uri] = NoDoc
            /\ uri \notin validationInFlight
            /\ validationTimeouts[uri] = NoDoc
            /\ \A key \in CacheKeys(configCache) : key[2] # uri

(***************************************************************************)
(* The workspace folders change while a document is open.                  *)
(***************************************************************************)
MaxFolders == 2

\* event.removed and event.added of a client that adds folders it has not
\* added before
FolderEvents ==
    \E removed \in SUBSET Folders, added \in SeqsUpTo(Folders, 1) :
        /\ removed \subseteq SeqRange(workspaceFolders)
        /\ SeqRange(added) \cap SeqRange(workspaceFolders) = {}
        /\ Len(workspaceFolders) + Len(added) <= MaxFolders
        /\ removed # {} \/ added # <<>>
        /\ onDidChangeWorkspaceFolders(removed, added)

\* one document that stays open, and workspace folders that come and go
NextFolders ==
    \/ DocumentEvents({UriA}, {"markdown"}, ConfigMaxVersion, ConfigMaxOpens)
    \/ Continuations
    \/ FolderEvents

SpecFolders == Init /\ [][NextFolders]_vars

(***************************************************************************)
(* C33: the step that handles a workspace-folder change leaves the config  *)
(* cache empty and hands every open document to the queue: a document with *)
(* a run in flight is queued behind it, and for every other document a run *)
(* starts that misses the cache and resolves the configuration under the   *)
(* workspace root of the new folder set.                                   *)
(***************************************************************************)
C33_FolderChangeClearsAndRevalidates ==
    [][\A removed \in SUBSET Folders, added \in SeqsUpTo(Folders, 1) :
          onDidChangeWorkspaceFolders(removed, added) =>
              /\ configCache' = <<>>
              /\ \A uri \in URIs :
                    IsOpen(uri) =>
                        IF uri \in validationInFlight
                        THEN queuedValidations'[uri] = documents[uri]
                        ELSE \E run \in BagToSet(runs') :
                                /\ run.document = documents[uri]
                                /\ run.pc = "loadConfig"
                                /\ run.cacheKey =
                                      <<getWorkspaceRootFor(workspaceFolders', rootPath',
                                                            uri), uri>>
                                /\ CopiesIn(run, runs') = CopiesIn(run, runs) + 1
      ]_vars

\* the diagnostics of a.md were published under folder "/w" from a filled
\* cache; the folder was replaced by "/w/docs" since: the cache is empty and
\* the run the event started resolves the configuration under "/w/docs"
C33_Witness ==
    /\ workspaceFolders = <<FolderDocs>>
    /\ rootPath = FolderDocs
    /\ IsOpen(UriA)
    /\ lastPublished[UriA].version = 1
    /\ configCache = <<>>
    /\ RunsOfUri(runs, UriA) = 1
    /\ \E run \in BagToSet(runs) :
          run.pc = "loadConfig" /\ run.cacheKey = <<FolderDocs, UriA>>

\* two documents that are opened, edited, saved and closed
NextMultiClose ==
    \/ DocumentEvents(URIs, {"markdown"}, MultiMaxVersion, MultiMaxOpens)
    \/ CloseEvents(URIs)
    \/ Continuations

SpecMultiClose == Init /\ [][NextMultiClose]_vars

(***************************************************************************)
(* C34: the step that handles an open, change, save or close event of one  *)
(* uri leaves the debounce timer, in-flight marker, queued snapshot,       *)
(* latest-version stamp, stored fix list, last published diagnostics and   *)
(* runs of every other uri unchanged; and a run in flight for one uri      *)
(* never delays the start of a run for another: a document handed to the   *)
(* queue while its own uri has no run in flight starts its run in that     *)
(* step, whatever is in flight for the other uris.                         *)
(***************************************************************************)
\* the step handles a lifecycle event of the uri
LifecycleEvent(uri) ==
    \/ OpenOrChange(uri)
    \/ onDidSaveTextDocument(uri)
    \/ onDidCloseTextDocument(uri)

\* the step leaves everything the server keeps for the uri as it was
Untouched(other) ==
    /\ validationTimeouts'[other] = validationTimeouts[other]
    /\ (other \in validationInFlight') = (other \in validationInFlight)
    /\ queuedValidations'[other] = queuedValidations[other]
    /\ latestVersionByUri'[other] = latestVersionByUri[other]
    /\ documentFixes'[other] = documentFixes[other]
    /\ lastPublished'[other] = lastPublished[other]
    /\ sent' # other
    /\ \A run \in BagToSet(runs) \cup BagToSet(runs') :
          run.uri = other => CopiesIn(run, runs') = CopiesIn(run, runs)

C34_DocumentsAreIndependent ==
    [][\A uri \in URIs :
          /\ LifecycleEvent(uri) => \A other \in URIs \ {uri} : Untouched(other)
          /\ \A document \in EnqueuedDocuments(uri) :
                (/\ Enqueues(uri, document)
                 /\ uri \notin validationInFlight
                 /\ document.languageId = "markdown") =>
                    /\ Starts(document)
                    /\ queuedValidations'[uri] = NoDoc
                    /\ \A other \in URIs \ {uri} : Untouched(other)
      ]_vars

\* b.md was saved while the run of a.md was awaiting the engine: its run has
\* started beside it
C34_Witness ==
    /\ RunsOfUri(runs, UriA) = 1
    /\ RunsOfUri(runs, UriB) = 1
    /\ \E run \in BagToSet(runs) : run.uri = UriA /\ run.pc = "lint"
    /\ \E run \in BagToSet(runs) : run.uri = UriB /\ run.pc = "loadConfig"
    /\ latestVersionByUri[UriA] = 1
    /\ latestVersionByUri[UriB] = 1
    /\ lastPublished[UriA] = NoPub
    /\ queuedValidations[UriB] = NoDoc

(***************************************************************************)
(* C35: whenever a code-action request for a document gets edits, the      *)
(* stored fix pairs the edits are built from were computed from the        *)
(* version of the document that is in the registry: while a document is    *)
(* open and fix pairs are stored for it, the pairs are those of the        *)
(* diagnostics published for the registry's version of the document.       *)
(***************************************************************************)
\* onCodeAction gets past its two early returns: the document is in the
\* registry and its stored fix list is not empty
onCodeActionBuildsEdits(uri) ==
    /\ IsOpen(uri)
    /\ documentFixes[uri].present
    /\ documentFixes[uri].pairs # <<>>

C35_EditsFromFixesOfRegistryVersion ==
    \A uri \in URIs :
        onCodeActionBuildsEdits(uri) =>
            /\ documentFixes[uri].pairs = FixPairsOf(lastPublished[uri].diagnostics)
            /\ lastPublished[uri].inc = documents[uri].inc
            /\ lastPublished[uri].version = documents[uri].version

(***************************************************************************)
(* C36: the edits of the fix-all action are kept in descending order of    *)
(* their start positions (line, then character).  A candidate edit is      *)
(* dropped if and only if its range overlaps an edit that was kept: a      *)
(* dropped edit overlaps a kept edit that does not start before it, and a  *)
(* kept edit overlaps no other kept edit; so of two overlapping edits the  *)
(* one with the greater start survives, and two edits that only touch are  *)
(* both kept.                                                              *)
(***************************************************************************)
\* the intervals intersect: each starts before the other ends
Intersect(range1, range2) ==
    /\ Before(range1.start, range2.end)
    /\ Before(range2.start, range1.end)

\* the end of one range is the start of the other
Touch(range1, range2) == range1.end = range2.start \/ range2.end = range1.start

C36_FixAllKeepsFirstInDescendingOrder ==
    (call.op = "fixAll" /\ result # <<>>) =>
        LET candidates == allTextEdits(call.diagnosticFixPairs, call.document)
            kept == result[1].edits
        IN /\ SeqRange(kept) \subseteq SeqRange(candidates)
           /\ \A i, j \in 1..Len(kept) :
                 i < j => ~Before(kept[i].range.start, kept[j].range.start)
           /\ \A i \in 1..Len(candidates) :
                 LET edit == candidates[i]
                 IN IF edit \in SeqRange(kept)
                    THEN \A k \in SeqRange(kept) \ {edit} : ~Intersect(edit.range, k.range)
                    ELSE \E k \in SeqRange(kept) :
                            /\ Intersect(edit.range, k.range)
                            /\ ~Before(k.range.start, edit.range.start)
           /\ (/\ Len(candidates) = 2
               /\ Intersect(candidates[1].range, candidates[2].range)
               /\ candidates[1].range.start # candidates[2].range.start) =>
                 /\ Len(kept) = 1
                 /\ \A c \in SeqRange(candidates) :
                       ~Before(kept[1].range.start, c.range.start)
           /\ (/\ Len(candidates) = 2
               /\ Touch(candidates[1].range, candidates[2].range)
               /\ ~Intersect(candidates[1].range, candidates[2].range)) =>
                 Len(kept) = 2

\* the fixes delete the characters 0..1 and 1..2 of the first line: the edits
\* overlap in character 1, and the one that starts at character 1 is kept
C36_Witness ==
    /\ call.op = "fixAll"
    /\ call.document = TwoLineDocument
    /\ LET candidates == allTextEdits(call.diagnosticFixPairs, call.document)
       IN /\ Len(candidates) = 2
          /\ candidates[1].range.start.character = 0
          /\ candidates[1].range.end.character = 2
          /\ candidates[2].range.start.character = 1
          /\ candidates[2].range.end.character = 3
          /\ candidates[1].range.start.line = candidates[2].range.start.line
          /\ result[1].edits = <<candidates[2]>>

\* the fixes delete the characters 0..1 and 2..3 of the first line: the edits
\* touch at character 2 and both are kept, the later one first
C36_TouchingWitness ==
    /\ call.op = "fixAll"
    /\ call.document = TwoLineDocument
    /\ LET candidates == allTextEdits(call.diagnosticFixPairs, call.document)
       IN /\ Len(candidates) = 2
          /\ candidates[1].range.end = candidates[2].range.start
          /\ candidates[1].range.start # candidates[1].range.end
          /\ candidates[2].range.start # candidates[2].range.end
          /\ result[1].edits = <<candidates[2], candidates[1]>>

(***************************************************************************)
(* Converting one fix descriptor, also one that markdownlint would not     *)
(* report: a line outside the document, a negative column or delete count. *)
(***************************************************************************)
MaxFixLine == 3

\* fixInfo.lineNumber and fixInfo.editColumn are one-based, 0 stands for a
\* field that is left out
AnyFixInfos ==
    [lineNumber : -1..MaxFixLine, editColumn : -1..MaxEditColumn,
     deleteCount : -1..MaxDeleteCount, insertText : {<<>>, <<"x">>}]

\* the line of the diagnostic, which is outside the document after an edit
\* that removed lines
DiagnosticLines == 0..(MaxFixLine - 1)

fixInfoToTextEditCalled(fixInfo, diagnostic, document) ==
    /\ call' = [op |-> "fixInfoToTextEdit", fixInfo |-> fixInfo,
                diagnostic |-> diagnostic, document |-> document]
    /\ result' = fixInfoToTextEdit(fixInfo, diagnostic, document)
    /\ UNCHANGED serverVars

NextFixInfo ==
    /\ call = NoCall
    /\ \E fixInfo \in AnyFixInfos, line \in DiagnosticLines :
           fixInfoToTextEditCalled(fixInfo, [line |-> line, code |-> "MD009"],
                                   TwoLineDocument)

SpecFixInfo == Init /\ [][NextFixInfo]_vars

(***************************************************************************)
(* C37: converting a fix descriptor to an edit gives null exactly when the *)
(* delete count is 0 and the insert text is empty, or the line is outside  *)
(* the document, or the column or the delete count is negative, or the     *)
(* clamped range is empty and the insert text is empty; in every other     *)
(* case it gives an edit on that one line with the range                   *)
(* [min(column, L), min(column + deleteCount, L)), L being the length of   *)
(* the line, so that 0 <= start <= end <= L.                               *)
(***************************************************************************)
\* the zero-based line and column the descriptor stands for
LineOf(fixInfo, diagnostic) ==
    IF fixInfo.lineNumber = 0 THEN diagnostic.line ELSE fixInfo.lineNumber - 1

ColumnOf(fixInfo) == IF fixInfo.editColumn = 0 THEN 0 ELSE fixInfo.editColumn - 1

C37_NullOrClampedEdit ==
    call.op = "fixInfoToTextEdit" =>
        LET line == LineOf(call.fixInfo, call.diagnostic)
            column == ColumnOf(call.fixInfo)
            deleteCount == call.fixInfo.deleteCount
            insertText == call.fixInfo.insertText
            outside == line < 0 \/ line >= Len(call.document.lines)
            L == IF outside THEN 0 ELSE Len(call.document.lines[line + 1])
            rejected ==
                \/ deleteCount = 0 /\ insertText = <<>>
                \/ outside
                \/ column < 0
                \/ deleteCount < 0
                \/ Min(column, L) = Min(column + deleteCount, L) /\ insertText = <<>>
        IN IF rejected
           THEN result = NoEdit
           ELSE /\ result # NoEdit
                /\ result.newText = insertText
                /\ result.range.start = [line |-> line, character |-> Min(column, L)]
                /\ result.range.end =
                      [line |-> line, character |-> Min(column + deleteCount, L)]
                /\ 0 <= result.range.start.character
                /\ result.range.start.character <= result.range.end.character
                /\ result.range.end.character <= L

\* a deletion of two characters from column 2 of the line "a": both ends are
\* clamped to the end of the line, and the text to insert keeps the edit
C37_Witness ==
    /\ call.op = "fixInfoToTextEdit"
    /\ call.fixInfo = [lineNumber |-> 2, editColumn |-> 3, deleteCount |-> 2,
                       insertText |-> <<"x">>]
    /\ result # NoEdit
    /\ result.range.start = [line |-> 1, character |-> 1]
    /\ result.range.end = [line |-> 1, character |-> 1]

\* the same deletion without a text to insert is rejected after the clamping
C37_RejectedWitness ==
    /\ call.op = "fixInfoToTextEdit"
    /\ call.fixInfo = [lineNumber |-> 2, editColumn |-> 3, deleteCount |-> 2,
                       insertText |-> <<>>]
    /\ result = NoEdit

(***************************************************************************)
(* Layering the sources of a directory chain: c.md in /w/docs/sub, with    *)
(* CLI-tool-style files that set the same keys to different values.        *)
(***************************************************************************)
LayerCli2Bodies ==
    {[fix |-> "true", config |-> [MD041 |-> "false", MD010 |-> "false"]],
     [fix |-> "false", noBanner |-> "true", config |-> [MD041 |-> "true"]],
     [noProgress |-> "true"]}

LayerFileStates(bodies) == {Absent} \cup {Parsed(body) : body \in bodies}

LayerRootContents ==
    {DirFiles(cli2, plain, rc, package) :
        cli2 \in LayerFileStates(LayerCli2Bodies), plain \in LayerFileStates(PlainBodies),
        rc \in LayerFileStates({RcBody}), package \in LayerFileStates({PackageWithKey})}

LayerDocsContents ==
    {DirFiles(cli2, plain, Absent, Absent) :
        cli2 \in LayerFileStates(LayerCli2Bodies), plain \in LayerFileStates(PlainBodies)}

LayerSubContents ==
    {DirFiles(cli2, plain, rc, Absent) :
        cli2 \in LayerFileStates(LayerCli2Bodies), plain \in LayerFileStates(PlainBodies),
        rc \in LayerFileStates({RcBody})}

NextLayers ==
    /\ call = NoCall
    /\ \E root \in LayerRootContents, docs \in LayerDocsContents,
          sub \in LayerSubContents :
             loadConfigCalled(FileSystem(root, docs, sub), DeepUri, RootDir)

SpecLayers == Init /\ [][NextLayers]_vars

\* the sources of the call, the one of the document's directory first
Found == foundConfigs(call.fs, call.workspaceRoot, result.searched)

\* mergedOptions after the rounds of the sources k..Len(Found) of the loop,
\* which goes from the last source to the first
MergedFrom(k) == applyConfigs(EmptyObject, SubSeq(Found, k, Len(Found)))

ConfigOf(object) == IF Has(object, "config") THEN object.config ELSE EmptyObject

(***************************************************************************)
(* C38: layering a plain-style or RC-style source on the result merged     *)
(* from the outer directories replaces the config sub-object of the merged *)
(* result with the parsed body of the file, no config key of the outer     *)
(* layers surviving, and leaves every other top-level key as it was.       *)
(***************************************************************************)
C38_PlainSourceReplacesConfigOnly ==
    (call.op = "loadConfig" /\ Found # <<>>) =>
        /\ result.options = MergedFrom(1)
        /\ \A k \in 1..Len(Found) :
              isMarkdownlintConfig(Found[k].filename) =>
                  LET before == MergedFrom(k + 1)
                      after == MergedFrom(k)
                  IN /\ DOMAIN after = DOMAIN before \cup {"config"}
                     /\ after.config = Found[k].config
                     /\ \A key \in DOMAIN before \ {"config"} : after[key] = before[key]

\* the plain file of /w/docs/sub over the CLI-tool-style file of /w/docs: the
\* resolved config is the body of the plain file, without the rules of the
\* outer file, and the other keys of the outer file are kept
C38_Witness ==
    /\ call.op = "loadConfig"
    /\ Len(Found) >= 2
    /\ Found[1].filename = PlainName
    /\ Found[1].config = [MD013 |-> "false"]
    /\ Found[2].filename = Cli2Name
    /\ Found[2].config = [fix |-> "true", config |-> [MD041 |-> "false", MD010 |-> "false"]]
    /\ result.options = [fix |-> "true", config |-> [MD013 |-> "false"]]

(***************************************************************************)
(* C39: CLI-tool-style sources, and the sub-key of the root package.json,  *)
(* are merged additively along the directory chain: for a top-level key    *)
(* the value of the deeper directory replaces the outer one, and the       *)
(* config sub-objects are merged key by key, the deeper directory winning  *)
(* per key, so that config keys set only further out survive.              *)
(***************************************************************************)
C39_CliSourcesMergeAdditively ==
    (call.op = "loadConfig" /\ Found # <<>>) =>
        /\ result.options = MergedFrom(1)
        /\ \A k \in 1..Len(Found) :
              ~isMarkdownlintConfig(Found[k].filename) =>
                  LET before == MergedFrom(k + 1)
                      after == MergedFrom(k)
                      body == Found[k].config
                  IN /\ DOMAIN after = DOMAIN before \cup DOMAIN body
                     /\ \A key \in DOMAIN body \ {"config"} : after[key] = body[key]
                     /\ \A key \in DOMAIN before \ (DOMAIN body \cup {"config"}) :
                           after[key] = before[key]
                     /\ DOMAIN ConfigOf(after)
                           = DOMAIN ConfigOf(before) \cup DOMAIN ConfigOf(body)
                     /\ \A rule \in DOMAIN ConfigOf(body) :
                           after.config[rule] = body.config[rule]
                     /\ \A rule \in DOMAIN ConfigOf(before) \ DOMAIN ConfigOf(body) :
                           after.config[rule] = before.config[rule]

\* two CLI-tool-style files, in /w/docs/sub and /w/docs: fix and MD041 are of
\* the deeper file, noBanner is its own, MD010 is of the outer file only
C39_Witness ==
    /\ call.op = "loadConfig"
    /\ Len(Found) = 2
    /\ Found[1].filename = Cli2Name
    /\ Found[1].config = [fix |-> "false", noBanner |-> "true",
                          config |-> [MD041 |-> "true"]]
    /\ Found[2].filename = Cli2Name
    /\ Found[2].config = [fix |-> "true", config |-> [MD041 |-> "false", MD010 |-> "false"]]
    /\ result.options = [fix |-> "false", noBanner |-> "true",
                         config |-> [MD041 |-> "true", MD010 |-> "false"]]

(***************************************************************************)
(* C40: for every rule of the config object that the client set neither in *)
(* its initializationOptions nor in a workspace configuration, the value   *)
(* passed to the analysis engine is the value resolved from the            *)
(* configuration files; in particular the default of a configuration file  *)
(* is kept when the client sets no default.                                *)
(***************************************************************************)
\* the rules that a workspace configuration of the client sets
WorkspaceRules ==
    UNION {DOMAIN clientSettings.config :
               clientSettings \in {c \in ClientSettings \ {Null} : Has(c, "config")}}

C40_FileRulesKeptUnlessClientSets ==
    \A run \in LintCalls :
        LET files == documentOptionsAt(run.options)
            options == OptionsOfLint(run)
        IN Has(files, "config") =>
              \A rule \in DOMAIN files.config \ (InitializationRules \cup WorkspaceRules) :
                  /\ Has(options, "config")
                  /\ Has(options.config, rule)
                  /\ options.config[rule] = files.config[rule]

====
